---- MODULE Spec2Model ----
(***************************************************************************)
(* dovi_tool: the chunked NAL demultiplexer (src/dovi/io.rs) and the RPU   *)
(* header codec (src/dovi/rpu.rs).                                          *)
(*                                                                         *)
(* Option<T> values are sequences of length at most one: <<>> is None and  *)
(* <<x>> is Some(x).  Bytes are the integers 0..255, a byte slice is a     *)
(* sequence of bytes, a bit buffer a sequence of 0/1.                      *)
(***************************************************************************)
EXTENDS Integers, Sequences, FiniteSets, TLC

VARIABLES
    input,               \* the bytes of the input file
    chunk_size,          \* the slice length given to ByteSliceIter::new
    pos,                 \* bytes the chunk iterator has handed out so far
    mode,                \* DoviReader.mode
    skip_next,           \* DoviReader.skip_next
    bl_writer,           \* DoviWriter.bl_writer : Option of the bytes written
    el_writer,           \* DoviWriter.el_writer
    rpu_writer,          \* DoviWriter.rpu_writer
    read_data,           \* the chunk being scanned
    current_chunk_type,  \* Option<ChunkType>
    consumed,
    no_next_nal,
    nal_type_index,
    current_rpu,
    parsed,              \* payloads handed to parse_dovi_rpu, in call order
    flushed,             \* the writers flush() was called on
    warnings,            \* the messages the pass has written for the user
    pc,                  \* "read" | "scan" | "done" | "error" | "panic"
                         \* ("idle": no pass)
    codec_data,          \* parse_dovi_rpu: data, the RPU payload given to it
    codec_nal,           \* parse_dovi_rpu: rpu_nal, the decoded record
    codec_out,           \* parse_dovi_rpu: data_to_write, the bytes returned
    cpc                  \* "parse" | "to_81" | "write" | "done" | "panic" ("idle")

vars == <<input, chunk_size, pos, mode, skip_next, bl_writer, el_writer, rpu_writer,
          read_data, current_chunk_type, consumed, no_next_nal, nal_type_index,
          current_rpu, parsed, flushed, warnings, pc, codec_data, codec_nal,
          codec_out, cpc>>

pass_vars == <<input, chunk_size, pos, mode, skip_next, bl_writer, el_writer,
               rpu_writer, read_data, current_chunk_type, consumed, no_next_nal,
               nal_type_index, current_rpu, parsed, flushed, warnings, pc>>

codec_vars == <<codec_data, codec_nal, codec_out, cpc>>

----------------------------------------------------------------------------
(* Byte-slice helpers                                                      *)

NAL_START_CODE == <<0, 0, 0, 1>>
HEADER_LEN == 4

\* &d[n..] : the slice without its first n bytes (n <= Len(d))
From(d, n) == SubSeq(d, n + 1, Len(d))
\* &d[..n]
UpTo(d, n) == SubSeq(d, 1, n)

IsStartCodeAt(d, i) ==
    /\ i + HEADER_LEN <= Len(d)
    /\ SubSeq(d, i + 1, i + HEADER_LEN) = NAL_START_CODE

\* nom's take_until(NAL_START_CODE): Ok((rest, taken)) at the first occurrence,
\* Err when the slice holds none.  rest is nal.0, taken is nal.1.
take_until_nal(d) ==
    LET hits == {i \in 0..Len(d) : IsStartCodeAt(d, i)}
    IN  IF hits = {}
        THEN [ok |-> FALSE, rest |-> <<>>, taken |-> <<>>]
        ELSE LET i == CHOOSE k \in hits : \A j \in hits : k <= j
             IN  [ok |-> TRUE, rest |-> From(d, i), taken |-> UpTo(d, i)]

----------------------------------------------------------------------------
(* Bit I/O primitives (BitVecReader / BitVecWriter) and the emulation-     *)
(* prevention codec.  rpu.rs imports them from the parent module.          *)

RECURSIVE BitsToNat(_)
BitsToNat(b) ==
    IF b = <<>> THEN 0 ELSE 2 * BitsToNat(SubSeq(b, 1, Len(b) - 1)) + b[Len(b)]

\* the low k bits of v, most significant first
RECURSIVE NatToBits(_, _)
NatToBits(v, k) ==
    IF k = 0 THEN <<>> ELSE Append(NatToBits(v \div 2, k - 1), v % 2)

\* BitVecReader::new(bytes): bit i of the stream is bit 7 - (i mod 8) of its byte
BytesToBits(d) ==
    [i \in 1..(8 * Len(d)) |-> (d[((i - 1) \div 8) + 1] \div (2 ^ (7 - ((i - 1) % 8)))) % 2]

\* bit i of b, zero past the end
BitOr0(b, i) == IF i <= Len(b) THEN b[i] ELSE 0

\* BitVec::as_slice(): whole bytes, the last one padded with zero bits
BitsToBytes(b) ==
    [j \in 1..((Len(b) + 7) \div 8) |->
        BitsToNat([k \in 1..8 |-> BitOr0(b, 8 * (j - 1) + k)])]

\* reader.get_n(k) at bit position p: a read past the end fails
get_n(b, p, k) ==
    IF p + k > Len(b)
    THEN [ok |-> FALSE, pos |-> p, v |-> 0]
    ELSE [ok |-> TRUE, pos |-> p + k, v |-> BitsToNat(SubSeq(b, p + 1, p + k))]

\* reader.get_n(k) whose value is not kept
skip_n(b, p, k) ==
    IF p + k > Len(b)
    THEN [ok |-> FALSE, pos |-> p, v |-> 0]
    ELSE [ok |-> TRUE, pos |-> p + k, v |-> 0]

\* the position of the first 1 bit after position p (0: none)
FirstOne(b, p) ==
    IF \A i \in (p + 1)..Len(b) : b[i] = 0 THEN 0
    ELSE CHOOSE i \in (p + 1)..Len(b) :
             b[i] = 1 /\ \A j \in (p + 1)..(i - 1) : b[j] = 0

\* (1 << n) + trailing - 1, t the read of the n trailing bits
UeValue(t, n) == [ok |-> t.ok, pos |-> t.pos, v |-> (2 ^ n) + t.v - 1]

\* first is the position of the first 1 bit; a run of more than 30 leading
\* zeros codes a value beyond 31 bits, which no field of an RPU holds: the
\* read fails
UeFrom(b, p, first) ==
    IF first = 0 \/ first - (p + 1) > 30 THEN [ok |-> FALSE, pos |-> p, v |-> 0]
    ELSE UeValue(get_n(b, first, first - (p + 1)), first - (p + 1))

\* reader.get_ue(): n leading zeros, the one, n more bits
get_ue(b, p) == UeFrom(b, p, FirstOne(b, p))

\* magnitude (k + 1) / 2, positive when k is odd
SeValue(u) ==
    [ok |-> u.ok, pos |-> u.pos,
     v |-> IF u.v % 2 = 1 THEN (u.v + 1) \div 2 ELSE -((u.v + 1) \div 2)]

\* reader.get_se(): k = get_ue(), then the signed value
get_se(b, p) == SeValue(get_ue(b, p))

\* the number of bits of v >= 1
RECURSIVE BitLen(_)
BitLen(v) == IF v <= 1 THEN 1 ELSE 1 + BitLen(v \div 2)

\* writer.write_ue(v): n zeros, then v + 1 in n + 1 bits
write_ue(v) ==
    LET n == BitLen(v + 1) - 1
    IN  [i \in 1..n |-> 0] \o NatToBits(v + 1, n + 1)

\* a scan that drops a 03 after a single zero byte
ClearDroppedAfterOneZero(d) ==
    {j \in 2..Len(d) : d[j] = 3 /\ d[j - 1] = 0}

\* the indices a left-to-right scan drops: it removes the 03 of every 00 00 03
\* and goes on after it, so a byte is dropped exactly when it is a 03 that
\* follows two zero bytes
ClearDropped(d) ==
    {j \in 3..Len(d) : d[j] = 3 /\ d[j - 1] = 0 /\ d[j - 2] = 0}

\* the index of the byte of d that lands at position n of the output
ClearSource(drop, n) ==
    CHOOSE j \in n..(n + Cardinality(drop)) :
        j \notin drop /\ j - Cardinality({k \in drop : k < j}) = n

ClearWith(d, drop) ==
    [n \in 1..(Len(d) - Cardinality(drop)) |-> d[ClearSource(drop, n)]]

\* clear_start_code_emulation_prevention_3_byte
clear_start_code_emulation_prevention_3_byte(d) == ClearWith(d, ClearDropped(d))

\* the number of zero bytes right before index i
ZeroRun(d, i) ==
    (i - 1) - (CHOOSE j \in 0..(i - 1) :
                  /\ j = 0 \/ d[j] # 0
                  /\ \A k \in (j + 1)..(i - 1) : d[k] = 0)

\* the indices whose byte gets a 03 in front of it.  The scan counts the zero
\* bytes it has emitted, inserts before a byte <= 03 once the count is two and
\* starts counting again from the byte after the 03: in a run of zeros every
\* second byte from the third on, and a byte <= 03 after an even run
AddInserted(d) ==
    {i \in 3..Len(d) :
        /\ d[i] <= 3 /\ d[i - 1] = 0 /\ d[i - 2] = 0
        /\ ZeroRun(d, i) % 2 = 0}

\* the index of the byte of d that lands at position n of the output, 0 when
\* that position holds an inserted 03
AddSource(d, ins, n) ==
    IF \E i \in (n - Cardinality(ins))..n :
           i >= 1 /\ i + Cardinality({k \in ins : k <= i}) = n
    THEN CHOOSE i \in (n - Cardinality(ins))..n :
             i >= 1 /\ i + Cardinality({k \in ins : k <= i}) = n
    ELSE 0

AddWith(d, ins) ==
    [n \in 1..(Len(d) + Cardinality(ins)) |->
        IF AddSource(d, ins, n) = 0 THEN 3 ELSE d[AddSource(d, ins, n)]]

\* add_start_code_emulation_prevention_3_byte
add_start_code_emulation_prevention_3_byte(d) == AddWith(d, AddInserted(d))

----------------------------------------------------------------------------
(* The RPU record and its header codec (rpu.rs)                            *)

\* RpuNal::default()
RpuNalDefault ==
    [ header_end |-> 0,
      rpu_nal_prefix |-> 0,
      rpu_type |-> 0,
      rpu_format |-> 0,
      vdr_rpu_profile |-> 0,
      vdr_rpu_level |-> 0,
      vdr_seq_info_present_flag |-> FALSE,
      chroma_resampling_explicit_filter_flag |-> FALSE,
      coefficient_data_type |-> 0,
      coefficient_log2_denom |-> 0,
      vdr_rpu_normalized_idc |-> 0,
      bl_video_full_range_flag |-> FALSE,
      bl_bit_depth_minus8 |-> 0,
      el_bit_depth_minus8 |-> 0,
      vdr_bit_depth_minus_8 |-> 0,
      spatial_resampling_filter_flag |-> FALSE,
      reserved_zero_3bits |-> 0,
      el_spatial_resampling_filter_flag |-> FALSE,
      disable_residual_flag |-> FALSE,
      vdr_dm_metadata_present_flag |-> FALSE,
      use_prev_vdr_rpu_flag |-> FALSE,
      prev_vdr_rpu_id |-> 0,
      vdr_rpu_id |-> 0,
      mapping_color_space |-> 0,
      mapping_chroma_format_idc |-> 0,
      num_pivots_minus_2 |-> <<0, 0, 0>>,
      pred_pivot_value |-> <<>>,
      nlq_method_idc |-> 0,
      nlq_num_pivots_minus2 |-> 0,
      num_x_partitions_minus1 |-> 0,
      num_y_partitions_minus1 |-> 0,
      vdr_rpu_data |-> <<>>,
      nlq_data |-> <<>>,
      vdr_dm_data |-> <<>>,
      rpu_data_crc32 |-> 0 ]

\* A decode in progress is a record rd: rd.ok is FALSE once a read ran past the
\* end of the buffer or an assertion failed (the decoder panics), rd.pos is
\* reader.pos(), rd.nal the record under construction.
\* Moved(rd, g): the reader after the read g, its value dropped
Moved(rd, g) == [rd EXCEPT !.ok = g.ok, !.pos = g.pos]

\* Put(rd, f, g): rpu_nal.f = the value of the read g
Put(rd, f, g) == [rd EXCEPT !.ok = g.ok, !.pos = g.pos, !.nal[f] = g.v]

PutFlag(rd, f, g) == [rd EXCEPT !.ok = g.ok, !.pos = g.pos, !.nal[f] = (g.v = 1)]

\* data.f = the value of the read g, data the VdrDmData under construction
PutDm(rd, f, g) ==
    [rd EXCEPT !.ok = g.ok, !.pos = g.pos, !.nal.vdr_dm_data[1][f] = g.v]

\* rpu_format & 0x700 == 0
FormatLow(nal) == (nal.rpu_format \div 256) % 8 = 0

\* The conditions of rpu_data_header under which a field is read, each the
\* conjunction of the enclosing ifs (lines 215, 219, 224, 228, 235, 249, 268)
When(cond, nal) ==
    LET prefix == nal.rpu_nal_prefix = 25
        type2 == prefix /\ nal.rpu_type = 2
        seq == type2 /\ nal.vdr_seq_info_present_flag
        cur == type2 /\ ~nal.use_prev_vdr_rpu_flag
    IN  CASE cond = "always" -> TRUE
          [] cond = "prefix" -> prefix
          [] cond = "type2" -> type2
          [] cond = "seq" -> seq
          [] cond = "denom" -> seq /\ nal.coefficient_data_type = 0
          [] cond = "depths" -> seq /\ FormatLow(nal)
          [] cond = "prev" -> type2 /\ nal.use_prev_vdr_rpu_flag
          [] cond = "cur" -> cur
          [] cond = "nlq" -> cur /\ FormatLow(nal) /\ ~nal.disable_residual_flag

Fld(f, kind, k, cond) == [f |-> f, kind |-> kind, k |-> k, cond |-> cond]

\* rpu_data_header, lines 213-274: the reads in stream order.  kind n is
\* get_n(k), flag is get(), ue is get_ue(), pivots the loop of lines 256-266.
\* (line 270 stores the 0 that nlq_num_pivots_minus2 already holds)
HeaderFields ==
    << Fld("rpu_nal_prefix", "n", 8, "always"),
       Fld("rpu_type", "n", 6, "prefix"),
       Fld("rpu_format", "n", 11, "prefix"),
       Fld("vdr_rpu_profile", "n", 4, "type2"),
       Fld("vdr_rpu_level", "n", 4, "type2"),
       Fld("vdr_seq_info_present_flag", "flag", 1, "type2"),
       Fld("chroma_resampling_explicit_filter_flag", "flag", 1, "seq"),
       Fld("coefficient_data_type", "n", 2, "seq"),
       Fld("coefficient_log2_denom", "ue", 0, "denom"),
       Fld("vdr_rpu_normalized_idc", "n", 2, "seq"),
       Fld("bl_video_full_range_flag", "flag", 1, "seq"),
       Fld("bl_bit_depth_minus8", "ue", 0, "depths"),
       Fld("el_bit_depth_minus8", "ue", 0, "depths"),
       Fld("vdr_bit_depth_minus_8", "ue", 0, "depths"),
       Fld("spatial_resampling_filter_flag", "flag", 1, "depths"),
       Fld("reserved_zero_3bits", "n", 3, "depths"),
       Fld("el_spatial_resampling_filter_flag", "flag", 1, "depths"),
       Fld("disable_residual_flag", "flag", 1, "depths"),
       Fld("vdr_dm_metadata_present_flag", "flag", 1, "type2"),
       Fld("use_prev_vdr_rpu_flag", "flag", 1, "type2"),
       Fld("prev_vdr_rpu_id", "ue", 0, "prev"),
       Fld("vdr_rpu_id", "ue", 0, "cur"),
       Fld("mapping_color_space", "ue", 0, "cur"),
       Fld("mapping_chroma_format_idc", "ue", 0, "cur"),
       Fld("pred_pivot_value", "pivots", 0, "cur"),
       Fld("nlq_method_idc", "n", 3, "nlq"),
       Fld("num_x_partitions_minus1", "ue", 0, "cur"),
       Fld("num_y_partitions_minus1", "ue", 0, "cur") >>

\* pred_pivot_value[cmp][pivot_idx] = the value of the read g
PutPivot(rd, cmp, pivot_idx, g) ==
    [rd EXCEPT !.ok = g.ok, !.pos = g.pos,
               !.nal.pred_pivot_value[cmp + 1][pivot_idx + 1] = g.v]

\* rpu_data_header, lines 262-265: the pivot values of one component
RECURSIVE HeaderPivotValues(_, _, _, _, _)
HeaderPivotValues(b, rd, cmp, pivot_idx, pivot_idx_count) ==
    IF ~rd.ok \/ pivot_idx >= pivot_idx_count THEN rd
    ELSE HeaderPivotValues(b,
             PutPivot(rd, cmp, pivot_idx,
                      get_n(b, rd.pos, rd.nal.bl_bit_depth_minus8 + 8)),
             cmp, pivot_idx + 1, pivot_idx_count)

\* num_pivots_minus_2[cmp] = the value of the read g, and the push of
\* vec![0; pivot_idx_count]; a count the buffer cannot hold ends in a failed read
PutPivotCount(b, rd, cmp, g) ==
    IF ~g.ok \/ g.v + 2 > Len(b) THEN [rd EXCEPT !.ok = FALSE]
    ELSE [rd EXCEPT !.pos = g.pos,
                    !.nal.num_pivots_minus_2[cmp + 1] = g.v,
                    !.nal.pred_pivot_value = Append(@, [i \in 1..(g.v + 2) |-> 0])]

\* the pivot values of component cmp, whose count was just stored
HeaderPivotsOf(b, rd, cmp) ==
    IF ~rd.ok THEN rd
    ELSE HeaderPivotValues(b, rd, cmp, 0, rd.nal.num_pivots_minus_2[cmp + 1] + 2)

\* rpu_data_header, lines 256-266: the loop over the components
RECURSIVE HeaderPivots(_, _, _)
HeaderPivots(b, rd, cmp) ==
    IF ~rd.ok \/ cmp >= 3 THEN rd
    ELSE HeaderPivots(b,
             HeaderPivotsOf(b, PutPivotCount(b, rd, cmp, get_ue(b, rd.pos)), cmp),
             cmp + 1)

\* one read of a field table
ReadField(b, rd, fd) ==
    IF ~rd.ok \/ ~When(fd.cond, rd.nal) THEN rd
    ELSE CASE fd.kind = "n" -> Put(rd, fd.f, get_n(b, rd.pos, fd.k))
           [] fd.kind = "flag" -> PutFlag(rd, fd.f, get_n(b, rd.pos, 1))
           [] fd.kind = "ue" -> Put(rd, fd.f, get_ue(b, rd.pos))
           [] fd.kind = "pivots" -> HeaderPivots(b, rd, 0)
           [] fd.kind = "dm_n" -> PutDm(rd, fd.f, get_n(b, rd.pos, fd.k))
           [] fd.kind = "dm_ue" -> PutDm(rd, fd.f, get_ue(b, rd.pos))
           [] fd.kind = "skip" -> Moved(rd, skip_n(b, rd.pos, fd.k))
           [] fd.kind = "skip_ue" -> Moved(rd, get_ue(b, rd.pos))

\* the reads of a field table, in order
RECURSIVE ReadFields(_, _, _)
ReadFields(b, rd, fields) ==
    IF ~rd.ok \/ fields = <<>> THEN rd
    ELSE ReadFields(b, ReadField(b, rd, Head(fields)), Tail(fields))

\* RpuNal::validate: the assertions, all of which must hold
validate(nal) ==
    /\ nal.rpu_nal_prefix = 25
    /\ nal.vdr_rpu_profile = 1
    /\ nal.vdr_rpu_level = 0
    /\ nal.bl_bit_depth_minus8 = 2
    /\ nal.el_bit_depth_minus8 = 2
    /\ nal.vdr_bit_depth_minus_8 <= 6
    /\ nal.mapping_color_space = 0
    /\ nal.mapping_chroma_format_idc = 0
    /\ nal.coefficient_log2_denom <= 23
    /\ nal.nlq_method_idc = 0
    /\ nal.nlq_num_pivots_minus2 = 0

\* rpu_nal.validate() at the end of rpu_data_header: a failed assertion panics
Validated(rd) == IF rd.ok /\ ~validate(rd.nal) THEN [rd EXCEPT !.ok = FALSE] ELSE rd

\* rpu_data_header: the fields in stream order, then validate()
rpu_data_header(b) ==
    Validated(ReadFields(b, [ok |-> TRUE, pos |-> 0, nal |-> RpuNalDefault],
                         HeaderFields))

\* to_81 inverting el_spatial_resampling_filter_flag instead of clearing it
to_81_Inverting(nal) ==
    [nal EXCEPT !.el_spatial_resampling_filter_flag = ~@,
                !.disable_residual_flag = TRUE]

\* RpuNal::to_81
to_81(nal) ==
    [nal EXCEPT !.el_spatial_resampling_filter_flag = FALSE,
                !.disable_residual_flag = TRUE]

Bit(flag) == IF flag THEN 1 ELSE 0

\* RpuNal::write_header, the pivot values of one component
RECURSIVE WritePivotValues(_, _, _)
WritePivotValues(nal, cmp, pivot_idx) ==
    IF pivot_idx >= nal.num_pivots_minus_2[cmp + 1] + 2 THEN <<>>
    ELSE NatToBits(nal.pred_pivot_value[cmp + 1][pivot_idx + 1],
                   nal.bl_bit_depth_minus8 + 8)
         \o WritePivotValues(nal, cmp, pivot_idx + 1)

\* RpuNal::write_header, the loop over the components
RECURSIVE WritePivots(_, _)
WritePivots(nal, cmp) ==
    IF cmp >= 3 THEN <<>>
    ELSE write_ue(nal.num_pivots_minus_2[cmp + 1])
         \o WritePivotValues(nal, cmp, 0)
         \o WritePivots(nal, cmp + 1)

\* write_header with disable_residual_flag written before
\* el_spatial_resampling_filter_flag
WriteSeqInfoFlagsSwapped(nal) ==
    <<Bit(nal.chroma_resampling_explicit_filter_flag)>>
    \o NatToBits(nal.coefficient_data_type, 2)
    \o (IF nal.coefficient_data_type = 0
        THEN write_ue(nal.coefficient_log2_denom) ELSE <<>>)
    \o NatToBits(nal.vdr_rpu_normalized_idc, 2)
    \o <<Bit(nal.bl_video_full_range_flag)>>
    \o (IF FormatLow(nal)
        THEN write_ue(nal.bl_bit_depth_minus8)
             \o write_ue(nal.el_bit_depth_minus8)
             \o write_ue(nal.vdr_bit_depth_minus_8)
             \o <<Bit(nal.spatial_resampling_filter_flag)>>
             \o NatToBits(nal.reserved_zero_3bits, 3)
             \o <<Bit(nal.disable_residual_flag)>>
             \o <<Bit(nal.el_spatial_resampling_filter_flag)>>
        ELSE <<>>)

\* RpuNal::write_header, the vdr_seq_info_present_flag block
WriteSeqInfo(nal) ==
    <<Bit(nal.chroma_resampling_explicit_filter_flag)>>
    \o NatToBits(nal.coefficient_data_type, 2)
    \o (IF nal.coefficient_data_type = 0
        THEN write_ue(nal.coefficient_log2_denom) ELSE <<>>)
    \o NatToBits(nal.vdr_rpu_normalized_idc, 2)
    \o <<Bit(nal.bl_video_full_range_flag)>>
    \o (IF FormatLow(nal)
        THEN write_ue(nal.bl_bit_depth_minus8)
             \o write_ue(nal.el_bit_depth_minus8)
             \o write_ue(nal.vdr_bit_depth_minus_8)
             \o <<Bit(nal.spatial_resampling_filter_flag)>>
             \o NatToBits(nal.reserved_zero_3bits, 3)
             \o <<Bit(nal.el_spatial_resampling_filter_flag)>>
             \o <<Bit(nal.disable_residual_flag)>>
        ELSE <<>>)

\* RpuNal::write_header, the block after vdr_dm_metadata_present_flag
WriteIds(nal) ==
    <<Bit(nal.use_prev_vdr_rpu_flag)>>
    \o (IF nal.use_prev_vdr_rpu_flag
        THEN write_ue(nal.prev_vdr_rpu_id)
        ELSE write_ue(nal.vdr_rpu_id)
             \o write_ue(nal.mapping_color_space)
             \o write_ue(nal.mapping_chroma_format_idc)
             \o WritePivots(nal, 0)
             \o (IF FormatLow(nal) /\ ~nal.disable_residual_flag
                 THEN NatToBits(nal.nlq_method_idc, 3) ELSE <<>>)
             \o write_ue(nal.num_x_partitions_minus1)
             \o write_ue(nal.num_y_partitions_minus1))

\* RpuNal::write_header: the bits appended to the writer
write_header(nal) ==
    NatToBits(nal.rpu_nal_prefix, 8)
    \o (IF nal.rpu_nal_prefix # 25 THEN <<>>
        ELSE NatToBits(nal.rpu_type, 6)
             \o NatToBits(nal.rpu_format, 11)
             \o (IF nal.rpu_type # 2 THEN <<>>
                 ELSE NatToBits(nal.vdr_rpu_profile, 4)
                      \o NatToBits(nal.vdr_rpu_level, 4)
                      \o <<Bit(nal.vdr_seq_info_present_flag)>>
                      \o (IF nal.vdr_seq_info_present_flag
                          THEN WriteSeqInfo(nal) ELSE <<>>)
                      \o <<Bit(nal.vdr_dm_metadata_present_flag)>>
                      \o WriteIds(nal)))

\* write_rpu_data: the header; write_vdr_rpu_data and write_vdr_dm_data are empty
write_rpu_data(nal) == write_header(nal)

----------------------------------------------------------------------------
(* The RPU payload decoders (rpu.rs).  The decoded values the serializer   *)
(* never reads are not kept; every read moves the reader as in the code.   *)

\* reader.get_n(k), the value dropped
Skip(b, rd, k) == IF ~rd.ok THEN rd ELSE Moved(rd, skip_n(b, rd.pos, k))

\* reader.get_ue() or reader.get_se(), the value dropped
SkipUe(b, rd) == IF ~rd.ok THEN rd ELSE Moved(rd, get_ue(b, rd.pos))

\* coefficient_log2_denom_length; -1 stands for the panic on a bad type
coefficient_log2_denom_length(nal) ==
    IF nal.coefficient_data_type = 0 THEN nal.coefficient_log2_denom
    ELSE IF nal.coefficient_data_type = 1 THEN 32
    ELSE -1

\* the integer part of a coefficient, read when coefficient_data_type == 0
CoefInt(b, rd) == IF rd.nal.coefficient_data_type = 0 THEN SkipUe(b, rd) ELSE rd

\* one coefficient: the integer part, then get_n(coefficient_log2_denom_length)
Coef(b, rd, len) == Skip(b, CoefInt(b, rd), len)

RECURSIVE Coefs(_, _, _, _)
Coefs(b, rd, count, len) ==
    IF ~rd.ok \/ count = 0 THEN rd ELSE Coefs(b, Coef(b, rd, len), count - 1, len)

\* lines 361-380: linear interpolation.  At the last pivot the second value is
\* stored at pivot_idx + 1, the length of the arrays: the store panics
MappingLinear(b, rd, cmp, pivot_idx, len) ==
    IF pivot_idx = rd.nal.num_pivots_minus_2[cmp + 1]
    THEN [Coef(b, rd, len) EXCEPT !.ok = FALSE]
    ELSE Coef(b, rd, len)

\* lines 357-390, after poly_order_minus1 (order) was read
MappingPolyOrder(b, rd, cmp, pivot_idx, len, order, flag) ==
    IF ~rd.ok \/ ~flag.ok THEN [rd EXCEPT !.ok = FALSE]
    ELSE IF order = 0 /\ flag.v = 1
         THEN MappingLinear(b, Moved(rd, flag), cmp, pivot_idx, len)
    ELSE IF order = 0
         THEN Coefs(b, Moved(rd, flag), order + 2, len)
    ELSE Coefs(b, rd, order + 2, len)

\* rpu_data_mapping, lines 354-390: MAPPING_POLYNOMIAL; o is the read of
\* poly_order_minus1
MappingPoly(b, rd, cmp, pivot_idx, len, o) ==
    IF ~o.ok THEN [rd EXCEPT !.ok = FALSE]
    ELSE MappingPolyOrder(b, Moved(rd, o), cmp, pivot_idx, len, o.v,
                          IF o.v = 0 THEN get_n(b, o.pos, 1)
                          ELSE [ok |-> TRUE, pos |-> o.pos, v |-> 0])

\* rpu_data_mapping, lines 391-418: MAPPING_MMR; m is the read of
\* mmr_order_minus1, asserted <= 2
MappingMmr(b, rd, len, m) ==
    IF ~m.ok \/ m.v > 2 THEN [rd EXCEPT !.ok = FALSE]
    ELSE Coefs(b, Coef(b, Moved(rd, m), len), (m.v + 1) * 7, len)

\* lines 335-421, after mapping_idc (idc) was read.
\* num_mapping_param_predictors[cmp][pivot_idx] is still 0 when it is tested,
\* so mapping_param_pred_flag is never read and stays false.
MappingParam(b, rd, cmp, pivot_idx, len, idc) ==
    IF ~idc.ok THEN [rd EXCEPT !.ok = FALSE]
    ELSE IF idc.v = 0
         THEN MappingPoly(b, Moved(rd, idc), cmp, pivot_idx, len, get_ue(b, idc.pos))
    ELSE IF idc.v = 1
         THEN MappingMmr(b, Moved(rd, idc), len, get_n(b, idc.pos, 2))
    ELSE Moved(rd, idc)

\* rpu_data_mapping, the pivots of one component from pivot_idx on
RECURSIVE MappingPivots(_, _, _, _, _)
MappingPivots(b, rd, cmp, pivot_idx, len) ==
    IF ~rd.ok \/ pivot_idx >= rd.nal.num_pivots_minus_2[cmp + 1] + 1 THEN rd
    ELSE MappingPivots(b,
             MappingParam(b, rd, cmp, pivot_idx, len, get_ue(b, rd.pos)),
             cmp, pivot_idx + 1, len)

RECURSIVE MappingCmps(_, _, _, _)
MappingCmps(b, rd, cmp, len) ==
    IF ~rd.ok \/ cmp >= 3 THEN rd
    ELSE MappingCmps(b, MappingPivots(b, rd, cmp, 0, len), cmp + 1, len)

rpu_data_mapping(b, rd) ==
    IF ~rd.ok THEN rd
    ELSE IF coefficient_log2_denom_length(rd.nal) < 0 THEN [rd EXCEPT !.ok = FALSE]
    ELSE MappingCmps(b, rd, 0, coefficient_log2_denom_length(rd.nal))

\* lines 486-500: NLQ_LINEAR_DZ
NlqLinearDz(b, rd, len) ==
    IF rd.nal.nlq_method_idc = 0 THEN Coef(b, Coef(b, rd, len), len) ELSE rd

\* rpu_data_nlq, the components from cmp on (one pivot: nlq_num_pivots_minus2
\* is 0; the predictor flag is never read, as in rpu_data_mapping)
RECURSIVE NlqCmps(_, _, _, _)
NlqCmps(b, rd, cmp, len) ==
    IF ~rd.ok \/ cmp >= 3 THEN rd
    ELSE NlqCmps(b,
             NlqLinearDz(b,
                 Coef(b, Skip(b, rd, rd.nal.el_bit_depth_minus8 + 8), len), len),
             cmp + 1, len)

rpu_data_nlq(b, rd) ==
    IF ~rd.ok THEN rd
    ELSE IF coefficient_log2_denom_length(rd.nal) < 0 THEN [rd EXCEPT !.ok = FALSE]
    ELSE NlqCmps(b, rd, 0, coefficient_log2_denom_length(rd.nal))

\* rpu_nal.vdr_rpu_data = Some(..); rpu_nal.nlq_data = Some(..)
PayloadDone(rd) ==
    IF ~rd.ok THEN rd
    ELSE [rd EXCEPT !.nal.vdr_rpu_data = <<"VdrRpuData">>,
                    !.nal.nlq_data = <<"NlqData">>]

vdr_rpu_data_payload(b, rd) == PayloadDone(rpu_data_nlq(b, rpu_data_mapping(b, rd)))

\* while !reader.is_aligned() { reader.get(); }
Align(b, rd) ==
    IF rd.pos % 8 = 0 THEN rd ELSE Skip(b, rd, 8 - (rd.pos % 8))

\* the bits the level-specific fields of an extension block take
ExtBlockUseBits(level) ==
    IF level = 1 THEN 36 ELSE IF level = 2 THEN 85 ELSE IF level = 5 THEN 52 ELSE 0

\* lines 595-598: the padding up to 8 * ext_block_length bits
ExtBlockPad(b, rd, use, len_bits) ==
    IF use < len_bits THEN Skip(b, rd, len_bits - use) ELSE rd

\* data.ext_metadata_blocks.push(ext_metadata_block)
ExtBlockPush(rd, length, level, level_pos) ==
    IF ~rd.ok THEN rd
    ELSE [rd EXCEPT !.nal.vdr_dm_data[1].ext_metadata_blocks =
                        Append(@, [ext_block_length |-> length,
                                   ext_block_level |-> level,
                                   level_pos |-> level_pos,
                                   end_pos |-> rd.pos])]

\* lines 560-600: one extension block; l and v are the reads of
\* ext_block_length and ext_block_level
ExtBlock(b, rd, l, v) ==
    IF ~l.ok \/ ~v.ok THEN [rd EXCEPT !.ok = FALSE]
    ELSE ExtBlockPush(
             ExtBlockPad(b, Skip(b, Moved(rd, v), ExtBlockUseBits(v.v)),
                         ExtBlockUseBits(v.v), 8 * l.v),
             l.v, v.v, v.pos)

ExtBlockAt(b, rd, l) == ExtBlock(b, rd, l, get_n(b, l.pos, 8))

\* vdr_dm_data_payload, the extension blocks still to read
RECURSIVE ExtBlocks(_, _, _)
ExtBlocks(b, rd, left) ==
    IF ~rd.ok \/ left = 0 THEN rd
    ELSE ExtBlocks(b, ExtBlockAt(b, rd, get_ue(b, rd.pos)), left - 1)

\* a validation of the display management data without the test of signal_eotf
validate_dm_IgnoringEotf(dm) ==
    /\ dm.affected_dm_metadata_id <= 15
    /\ dm.signal_bit_depth >= 8 /\ dm.signal_bit_depth <= 16

\* VdrDmData::validate
validate_dm(dm) ==
    /\ dm.affected_dm_metadata_id <= 15
    /\ dm.signal_bit_depth >= 8 /\ dm.signal_bit_depth <= 16
    /\ dm.signal_eotf = 65535

\* the fields of VdrDmData that validate() and the block loop read
DmDefault ==
    [affected_dm_metadata_id |-> 0, signal_eotf |-> 0, signal_bit_depth |-> 0,
     num_ext_blocks |-> 0, ext_metadata_blocks |-> <<>>]

\* vdr_dm_data_payload, lines 512-550: the reads in stream order; skip is a
\* run of get_n reads whose values nothing reads afterwards
DmFields ==
    << Fld("affected_dm_metadata_id", "dm_ue", 0, "always"),
       Fld("current_dm_metadata_id", "skip_ue", 0, "always"),
       Fld("scene_refresh_flag", "skip_ue", 0, "always"),
       Fld("ycc_to_rgb_coef", "skip", 9 * 16, "always"),
       Fld("ycc_to_rgb_offset", "skip", 3 * 32, "always"),
       Fld("rgb_to_lms_coef", "skip", 9 * 16, "always"),
       Fld("signal_eotf", "dm_n", 16, "always"),
       Fld("signal_eotf_param", "skip", 16 + 16 + 32, "always"),
       Fld("signal_bit_depth", "dm_n", 5, "always"),
       Fld("signal_color_space", "skip", 2, "always"),
       Fld("signal_chroma_format", "skip", 2, "always"),
       Fld("signal_full_range_flag", "skip", 2, "always"),
       Fld("source_min_pq", "skip", 12, "always"),
       Fld("source_max_pq", "skip", 12, "always"),
       Fld("source_diagonal", "skip", 10, "always"),
       Fld("num_ext_blocks", "dm_ue", 0, "always") >>

\* lines 552-602
DmExtBlocks(b, rd) ==
    IF rd.ok /\ rd.nal.vdr_dm_data[1].num_ext_blocks > 0
    THEN ExtBlocks(b, Align(b, rd), rd.nal.vdr_dm_data[1].num_ext_blocks)
    ELSE rd

\* data.validate() at the end of vdr_dm_data_payload
DmValidated(rd) ==
    IF rd.ok /\ ~validate_dm(rd.nal.vdr_dm_data[1]) THEN [rd EXCEPT !.ok = FALSE]
    ELSE rd

\* vdr_dm_data_payload
vdr_dm_data_payload(b, rd) ==
    DmValidated(DmExtBlocks(b,
        ReadFields(b, [rd EXCEPT !.nal.vdr_dm_data = <<DmDefault>>], DmFields)))

\* read_rpu_data, lines 171-186: the steps after the header.  The value of
\* rpu_data_crc32 is not kept: nothing reads it.
PayloadSteps == <<"vdr_rpu_data_payload", "vdr_dm_data_payload", "align", "crc32">>

ReadStep(b, rd, step) ==
    IF ~rd.ok THEN rd
    ELSE CASE step = "vdr_rpu_data_payload" ->
                IF rd.nal.rpu_type = 2 /\ ~rd.nal.use_prev_vdr_rpu_flag
                THEN vdr_rpu_data_payload(b, rd) ELSE rd
           [] step = "vdr_dm_data_payload" ->
                IF rd.nal.rpu_type = 2 /\ rd.nal.vdr_dm_metadata_present_flag
                THEN vdr_dm_data_payload(b, rd) ELSE rd
           [] step = "align" -> Align(b, rd)
           [] step = "crc32" -> Skip(b, rd, 32)

RECURSIVE ReadSteps(_, _, _)
ReadSteps(b, rd, steps) ==
    IF ~rd.ok \/ steps = <<>> THEN rd
    ELSE ReadSteps(b, ReadStep(b, rd, Head(steps)), Tail(steps))

\* rpu_nal.header_end = reader.pos()
HeaderEnd(rd) == [rd EXCEPT !.nal.header_end = rd.pos]

\* read_rpu_data(reader, header_only)
read_rpu_data(b, header_only) ==
    ReadSteps(b, HeaderEnd(rpu_data_header(b)),
              IF header_only THEN <<>> ELSE PayloadSteps)

\* the re-serialization with the splice starting one bit after header_end
ReserializeSkippingABit(inner, nal) ==
    add_start_code_emulation_prevention_3_byte(
        BitsToBytes(write_rpu_data(nal)
                    \o SubSeq(inner, nal.header_end + 2, Len(inner))))

\* parse_dovi_rpu, lines 154-164: write the header of the transformed record,
\* splice the bits of the cleared input from header_end on, add
Reserialize(inner, nal) ==
    add_start_code_emulation_prevention_3_byte(
        BitsToBytes(write_rpu_data(nal)
                    \o SubSeq(inner, nal.header_end + 1, Len(inner))))

\* parse_dovi_rpu, lines 146-164, given the decode r of the cleared bits
Transformed(inner, r) ==
    IF r.ok
    THEN [ok |-> TRUE, rpu_nal |-> to_81(r.nal),
          bytes |-> Reserialize(inner, to_81(r.nal))]
    ELSE [ok |-> FALSE, rpu_nal |-> RpuNalDefault, bytes |-> <<>>]

ParseBits(inner) == Transformed(inner, read_rpu_data(inner, FALSE))

\* parse_dovi_rpu: clear, decode, to_81, re-serialize.  ok is FALSE when the
\* decode panicked.
ParseCleared(cleared) ==
    IF cleared = <<>> THEN Transformed(<<>>, [ok |-> FALSE])
    ELSE ParseBits(BytesToBits(cleared))

parse_dovi_rpu(bytes) ==
    ParseCleared(clear_start_code_emulation_prevention_3_byte(bytes))

----------------------------------------------------------------------------
(* The splitter (io.rs).  A pass is the record s of the reader's, the      *)
(* writer's and read_write_from_io's local state; the operators below      *)
(* return the record after the code they model has run.  s.pc = "panic"    *)
(* once an index or a slice was out of range or the codec panicked: the    *)
(* code after a panic does not run.                                        *)

BLChunk == "BLChunk"
ELChunk == "ELChunk"
RPUChunk == "RPUChunk"

Panic(s) == [s EXCEPT !.pc = "panic"]

\* match nal_type { 62 => RPUChunk, 63 => ELChunk, _ => BLChunk }
ChunkTypeOf(nal_type) ==
    IF nal_type = 62 THEN RPUChunk
    ELSE IF nal_type = 63 THEN ELChunk
    ELSE BLChunk

\* writer.write(bytes) on an Option<BufWriter>
WriteTo(w, bytes) == <<w[1] \o bytes>>

\* a write_nal_header that gives the start code of an RPU NAL to the EL sink
\* as well as to the RPU sink
write_nal_header_RpuToBoth(s, chunk_type) ==
    IF chunk_type = BLChunk
    THEN IF s.bl_writer # <<>>
         THEN [s EXCEPT !.bl_writer = WriteTo(@, NAL_START_CODE)] ELSE s
    ELSE IF s.el_writer # <<>> /\ (chunk_type = ELChunk \/ s.rpu_writer = <<>>)
    THEN [s EXCEPT !.el_writer = WriteTo(@, NAL_START_CODE)]
    ELSE IF chunk_type = ELChunk THEN s
    ELSE IF s.rpu_writer # <<>> /\ s.el_writer # <<>>
    THEN [s EXCEPT !.rpu_writer = WriteTo(@, NAL_START_CODE),
                   !.el_writer = WriteTo(@, NAL_START_CODE)]
    ELSE IF s.rpu_writer # <<>>
    THEN [s EXCEPT !.rpu_writer = WriteTo(@, NAL_START_CODE)]
    ELSE s

\* DoviReader::write_nal_header
write_nal_header(s, chunk_type) ==
    IF chunk_type = BLChunk
    THEN IF s.bl_writer # <<>>
         THEN [s EXCEPT !.bl_writer = WriteTo(@, NAL_START_CODE)] ELSE s
    ELSE IF chunk_type = ELChunk
    THEN IF s.el_writer # <<>>
         THEN [s EXCEPT !.el_writer = WriteTo(@, NAL_START_CODE)] ELSE s
    ELSE IF s.rpu_writer # <<>>
         THEN [s EXCEPT !.rpu_writer = WriteTo(@, NAL_START_CODE)]
         ELSE IF s.el_writer # <<>>
              THEN [s EXCEPT !.el_writer = WriteTo(@, NAL_START_CODE)] ELSE s

\* write_nal_data, ChunkType::ELChunk
WriteElData(s, data, with_header) ==
    IF s.el_writer = <<>> THEN s
    ELSE IF Len(data) <= 2
         THEN [s EXCEPT !.skip_next = 2 - Len(data)]
         ELSE IF with_header
              THEN [s EXCEPT !.el_writer = WriteTo(@, From(data, 2))]
              ELSE [s EXCEPT !.el_writer = WriteTo(@, data)]

\* lines 285-293: the re-serialized bytes r.bytes go to the RPU writer without
\* their first two bytes, or whole to the EL writer; a codec panic ends the pass
WriteRpuResult(s, r) ==
    IF ~r.ok THEN Panic(s)
    ELSE IF s.rpu_writer # <<>>
         THEN IF Len(r.bytes) < 2 THEN Panic(s)
              ELSE [s EXCEPT !.rpu_writer = WriteTo(@, From(r.bytes, 2))]
         ELSE IF s.el_writer # <<>>
              THEN [s EXCEPT !.el_writer = WriteTo(@, r.bytes)]
              ELSE s

\* write_nal_data, ChunkType::RPUChunk with a mode: parse_dovi_rpu(&data);
\* s.parsed records the byte strings handed to the codec
WriteRpuParsed(s, data) ==
    WriteRpuResult([s EXCEPT !.parsed = Append(@, data)], parse_dovi_rpu(data))

\* write_nal_data, ChunkType::RPUChunk without a mode
WriteRpuCopy(s, data) ==
    IF s.rpu_writer # <<>>
    THEN IF Len(data) < 2 THEN Panic(s)
         ELSE [s EXCEPT !.rpu_writer = WriteTo(@, From(data, 2))]
    ELSE IF s.el_writer # <<>>
         THEN [s EXCEPT !.el_writer = WriteTo(@, data)]
         ELSE s

\* write_nal_data, lines 250-304: match chunk_type
WriteData(s, chunk_type, data, with_header) ==
    IF chunk_type = BLChunk
    THEN IF s.bl_writer # <<>>
         THEN [s EXCEPT !.bl_writer = WriteTo(@, data)] ELSE s
    ELSE IF chunk_type = ELChunk
    THEN WriteElData(s, data, with_header)
    ELSE IF s.mode # <<>>
    THEN WriteRpuParsed(s, data)
    ELSE WriteRpuCopy(s, data)

\* DoviReader::write_nal_data: with write_header, the header is written and
\* &data[HEADER_LEN..] taken, which panics on a shorter slice
write_nal_data(s, chunk_type, data, with_header) ==
    IF with_header /\ Len(data) < HEADER_LEN
    THEN Panic(write_nal_header(s, chunk_type))
    ELSE WriteData(IF with_header THEN write_nal_header(s, chunk_type) ELSE s,
                   chunk_type,
                   IF with_header THEN From(data, HEADER_LEN) ELSE data,
                   with_header)

\* line 134: current_rpu.clear(), when write_nal_data returned
ClearRpu(s) == IF s.pc = "panic" THEN s ELSE [s EXCEPT !.current_rpu = <<>>]

\* line 139: self.skip_next = 0, when write_nal_data returned
ClearSkip(s) == IF s.pc = "panic" THEN s ELSE [s EXCEPT !.skip_next = 0]

\* lines 129-142: match chunk_type on the bytes before the first start code
WritePreviousOf(s, chunk_type, previous_nal_data) ==
    IF chunk_type = RPUChunk
    THEN ClearRpu(write_nal_data([s EXCEPT !.current_rpu = @ \o previous_nal_data],
                                 chunk_type, s.current_rpu \o previous_nal_data, TRUE))
    ELSE IF chunk_type = ELChunk
    THEN IF s.skip_next > Len(previous_nal_data) THEN Panic(s)
         ELSE ClearSkip(write_nal_data(s, chunk_type,
                                       From(previous_nal_data, s.skip_next), FALSE))
    ELSE write_nal_data(s, chunk_type, previous_nal_data, FALSE)

\* line 145: consumed += previous_nal_data.len()
ConsumedPrevious(s, n) ==
    IF s.pc = "panic" THEN s ELSE [s EXCEPT !.consumed = @ + n]

\* read_write_from_io, lines 123-146: the first match of a new chunk; the bytes
\* before it end the NAL of the previous chunk
WritePrevious(s, previous_nal_data) ==
    ConsumedPrevious(
        WritePreviousOf(s, s.current_chunk_type[1], previous_nal_data),
        Len(previous_nal_data))

\* lines 147-155: the chunk ends with a start code
HeaderOnlyBreak(s) ==
    [s EXCEPT !.skip_next = 2, !.nal_type_index = 0, !.consumed = 0,
              !.no_next_nal = FALSE, !.pc = "read"]

\* line 157: nal_data[nal_type_index] >> 1
NalTypeAt(s, nal_data) == nal_data[s.nal_type_index + 1] \div 2

\* lines 166-173: a NAL whose start code ended the previous chunk gets its
\* header now
HeaderIfSplit(s) ==
    IF s.nal_type_index = 0
    THEN [write_nal_header(s, s.current_chunk_type[1])
             EXCEPT !.nal_type_index = HEADER_LEN]
    ELSE s

\* lines 157-173: the NAL type and the chunk type
Classify(s, nal_data) ==
    IF s.nal_type_index >= Len(nal_data) THEN Panic(s)
    ELSE HeaderIfSplit(
             [s EXCEPT !.current_chunk_type =
                           <<ChunkTypeOf(NalTypeAt(s, nal_data))>>])

\* lines 177-183: the length of this NAL in nal_data
NalSize(nal_data) ==
    IF take_until_nal(From(nal_data, HEADER_LEN)).ok
    THEN Len(take_until_nal(From(nal_data, HEADER_LEN)).taken) + HEADER_LEN
    ELSE Len(nal_data)

\* lines 177-186: no_next_nal and consumed after the NAL was measured
Measured(s, nal_data) ==
    [s EXCEPT !.no_next_nal =
                  IF take_until_nal(From(nal_data, HEADER_LEN)).ok THEN @ ELSE TRUE,
              !.consumed = @ + NalSize(nal_data)]

\* lines 202-206
BreakIfLast(s) ==
    IF s.pc = "panic" THEN s
    ELSE IF s.no_next_nal
    THEN [s EXCEPT !.consumed = 0, !.no_next_nal = FALSE, !.pc = "read"]
    ELSE s

\* lines 188-206, s after Measured: hold back an RPU that does not end in
\* 0x80, else write the whole NAL and leave the chunk after its last NAL
WriteMeasured(s, nal_data, nal_type, size) ==
    IF nal_type = 62 /\ nal_data[size] # 128
    THEN [s EXCEPT !.current_rpu = @ \o UpTo(nal_data, size),
                   !.consumed = 0, !.no_next_nal = FALSE, !.pc = "read"]
    ELSE BreakIfLast(write_nal_data(s, s.current_chunk_type[1],
                                    UpTo(nal_data, size), TRUE))

\* lines 175-206
WriteNal(s, nal_data, nal_type) ==
    IF s.pc = "panic" THEN s
    ELSE WriteMeasured(Measured(s, nal_data), nal_data, nal_type, NalSize(nal_data))

\* lines 157-206, s after the bytes of the previous chunk's NAL were written
ClassifyAndWrite(s, nal_data) ==
    IF s.pc = "panic" THEN s
    ELSE WriteNal(Classify(s, nal_data), nal_data,
                  IF s.nal_type_index < Len(nal_data)
                  THEN NalTypeAt(s, nal_data) ELSE 0)

\* the Ok(nal) arm, nal the match of take_until_nal
ScanOkNal(s, nal) ==
    IF s.consumed # 0 /\ Len(nal.rest) = HEADER_LEN THEN HeaderOnlyBreak(s)
    ELSE ClassifyAndWrite(
             IF s.consumed = 0 /\ s.current_chunk_type # <<>>
             THEN WritePrevious(s, nal.taken) ELSE s,
             nal.rest)

\* read_write_from_io, the Ok(nal) arm of one turn of the 'chunk loop
ScanOk(s) == ScanOkNal(s, take_until_nal(From(s.read_data, s.consumed)))

\* lines 216-219
BreakChunk(s) ==
    IF s.pc = "panic" THEN s
    ELSE [s EXCEPT !.consumed = 0, !.no_next_nal = FALSE, !.pc = "read"]

\* read_write_from_io, the Err arm: the chunk holds no start code
ScanErr(s) ==
    BreakChunk(IF s.consumed = 0 /\ s.current_chunk_type # <<>>
               THEN write_nal_data(s, s.current_chunk_type[1], s.read_data, FALSE)
               ELSE s)

\* iter.next(): the next slice of at most cs bytes
IterNext(s, inp, cs) ==
    LET end == IF s.pos + cs < Len(inp) THEN s.pos + cs ELSE Len(inp)
    IN  [s EXCEPT !.read_data = SubSeq(inp, s.pos + 1, end), !.pos = end,
                  !.pc = "scan"]

\* lines 226-238: flush the writers that exist
FlushAll(s) ==
    [s EXCEPT !.flushed = {w \in {"bl", "el", "rpu"} :
                              \/ w = "bl" /\ s.bl_writer # <<>>
                              \/ w = "el" /\ s.el_writer # <<>>
                              \/ w = "rpu" /\ s.rpu_writer # <<>>},
              !.pc = "done"]

\* DoviReader::new, DoviWriter::new and the locals of read_write_from_io
NewPass(m, bl, el, rpu) ==
    [ mode |-> m, skip_next |-> 0,
      bl_writer |-> IF bl THEN << <<>> >> ELSE <<>>,
      el_writer |-> IF el THEN << <<>> >> ELSE <<>>,
      rpu_writer |-> IF rpu THEN << <<>> >> ELSE <<>>,
      pos |-> 0, read_data |-> <<>>, current_chunk_type |-> <<>>,
      consumed |-> 0, no_next_nal |-> FALSE, nal_type_index |-> HEADER_LEN,
      current_rpu |-> <<>>, parsed |-> <<>>, flushed |-> {}, pc |-> "read" ]

\* one step of the pass
Step(s, inp, cs) ==
    IF s.pc = "read"
    THEN IF s.pos < Len(inp) THEN IterNext(s, inp, cs) ELSE FlushAll(s)
    ELSE IF s.consumed > Len(s.read_data) THEN Panic(s)
    ELSE IF take_until_nal(From(s.read_data, s.consumed)).ok THEN ScanOk(s)
    ELSE ScanErr(s)

\* the pass run to its end
RECURSIVE RunAll(_, _, _)
RunAll(s, inp, cs) ==
    IF s.pc \in {"done", "panic"} THEN s ELSE RunAll(Step(s, inp, cs), inp, cs)

----------------------------------------------------------------------------
(* RPU payloads for the codec: a header written by the fields of a record, *)
(* then the mapping, NLQ and display-management payloads in the layout the *)
(* decoders read, the CRC and the terminator 0x80.                         *)

Zeros(n) == [i \in 1..n |-> 0]

Ones(n) == [i \in 1..n |-> 1]

\* one coefficient: integer part 0 when coefficient_data_type is 0, then
\* coefficient_log2_denom_length fraction bits
CoefBits(nal) ==
    (IF nal.coefficient_data_type = 0 THEN write_ue(0) ELSE <<>>)
    \o Ones(coefficient_log2_denom_length(nal))

RECURSIVE CoefsBits(_, _)
CoefsBits(nal, count) ==
    IF count = 0 THEN <<>> ELSE CoefBits(nal) \o CoefsBits(nal, count - 1)

MappingKinds == {"poly", "poly0", "linear", "mmr", "other"}

\* the mapping parameters of one pivot
MappingPivotBits(nal, kind) ==
    CASE kind = "poly" -> write_ue(0) \o write_ue(1) \o CoefsBits(nal, 3)
      [] kind = "poly0" -> write_ue(0) \o write_ue(0) \o <<0>> \o CoefsBits(nal, 2)
      [] kind = "linear" -> write_ue(0) \o write_ue(0) \o <<1>> \o CoefsBits(nal, 2)
      [] kind = "mmr" -> write_ue(1) \o <<0, 0>> \o CoefsBits(nal, 8)
      [] kind = "mmr3" -> write_ue(1) \o <<1, 1>> \o CoefsBits(nal, 29)
      [] kind = "predicted" -> write_ue(0) \o <<1>>
      [] kind = "other" -> write_ue(2)

\* kind "pred": the first pivot a polynomial, and every later one mapping_idc
\* and a set mapping_param_pred_flag, without parameters
RECURSIVE MappingPivotsBits(_, _, _)
MappingPivotsBits(nal, kind, count) ==
    IF count = 0 THEN <<>>
    ELSE IF kind = "pred"
    THEN MappingPivotBits(nal, "poly")
         \o MappingPivotsBits(nal, "predicted", count - 1)
    ELSE MappingPivotBits(nal, kind) \o MappingPivotsBits(nal, kind, count - 1)

RECURSIVE MappingBits(_, _, _)
MappingBits(nal, kind, cmp) ==
    IF cmp >= 3 THEN <<>>
    ELSE MappingPivotsBits(nal, kind, nal.num_pivots_minus_2[cmp + 1] + 1)
         \o MappingBits(nal, kind, cmp + 1)

\* nlq_offset, vdr_in_max, linear_deadzone_slope and _threshold of one component
NlqCmpBits(nal) == NatToBits(5, nal.el_bit_depth_minus8 + 8) \o CoefsBits(nal, 3)

NlqBits(nal) == NlqCmpBits(nal) \o NlqCmpBits(nal) \o NlqCmpBits(nal)

\* padding to the next byte boundary after n bits
PadBits(n) == Zeros((8 - (n % 8)) % 8)

\* one extension block of the given level and length (in bytes), its fields
\* and padding all ones or all zeros
ExtBlockBits(level, length, fill) ==
    write_ue(length) \o NatToBits(level, 8)
    \o [i \in 1..(IF ExtBlockUseBits(level) > 8 * length
                  THEN ExtBlockUseBits(level) ELSE 8 * length) |-> fill]

\* the display-management payload after n bits of RPU: the fixed fields of
\* the record d, then d.blocks extension blocks
DmFixedBits(d) ==
    write_ue(d.affected_dm_metadata_id) \o write_ue(0) \o write_ue(0)
    \o Ones(240) \o Ones(144)
    \o NatToBits(d.signal_eotf, 16) \o Ones(64)
    \o NatToBits(d.signal_bit_depth, 5) \o Ones(40)
    \o write_ue(d.blocks)

RECURSIVE ExtBlocksBits(_, _, _, _)
ExtBlocksBits(level, length, blocks, fill) ==
    IF blocks = 0 THEN <<>>
    ELSE ExtBlockBits(level, length, fill)
         \o ExtBlocksBits(level, length, blocks - 1, fill)

\* dm is <<>> or one record [affected_dm_metadata_id, signal_eotf,
\* signal_bit_depth, blocks, level, length, fill]
DmBits(n, dm) ==
    IF dm = <<>> THEN <<>>
    ELSE DmFixedBits(dm[1])
         \o (IF dm[1].blocks = 0 THEN <<>>
             ELSE PadBits(n + Len(DmFixedBits(dm[1])))
                  \o ExtBlocksBits(dm[1].level, dm[1].length, dm[1].blocks,
                                   dm[1].fill))

\* the payloads that follow the header of nal
PayloadBits(nal, kind) ==
    IF nal.rpu_type = 2 /\ ~nal.use_prev_vdr_rpu_flag
    THEN MappingBits(nal, kind, 0) \o NlqBits(nal) ELSE <<>>

\* bits, padded to a byte boundary
Padded(bits) == bits \o PadBits(Len(bits))

\* header and payloads
BodyBits(nal, kind) == write_header(nal) \o PayloadBits(nal, kind)

WithDm(bits, dm) == bits \o DmBits(Len(bits), dm)

RPU_CRC == <<161, 178, 195, 212>>

\* the bytes of an RPU: header, payloads, alignment, CRC, terminator, with
\* emulation prevention applied
RpuOf(nal, kind, dm) ==
    add_start_code_emulation_prevention_3_byte(
        BitsToBytes(Padded(WithDm(BodyBits(nal, kind), dm))) \o RPU_CRC \o <<128>>)

----------------------------------------------------------------------------
(* The RPUs given to the codec                                             *)

MaxPivots == 1
MaxExtBlocks == 2

\* a header that validate() accepts
BaseNal ==
    [RpuNalDefault EXCEPT !.rpu_nal_prefix = 25, !.rpu_type = 2,
                          !.vdr_rpu_profile = 1,
                          !.vdr_seq_info_present_flag = TRUE,
                          !.bl_bit_depth_minus8 = 2, !.el_bit_depth_minus8 = 2,
                          !.vdr_bit_depth_minus_8 = 4]

\* an accepted header with every field the serializer writes away from its
\* default
RichNal ==
    [BaseNal EXCEPT !.rpu_format = 18,
                    !.chroma_resampling_explicit_filter_flag = TRUE,
                    !.vdr_rpu_normalized_idc = 1,
                    !.bl_video_full_range_flag = TRUE,
                    !.vdr_bit_depth_minus_8 = 6,
                    !.spatial_resampling_filter_flag = TRUE,
                    !.reserved_zero_3bits = 5,
                    !.vdr_rpu_id = 3,
                    !.prev_vdr_rpu_id = 2,
                    !.num_x_partitions_minus1 = 2,
                    !.num_y_partitions_minus1 = 1]

\* the pivot values of a component with n pivots
PivotValues(n) == [i \in 1..n |-> IF i = 1 THEN 0 ELSE 1023 - (n - i)]

HeaderChoices ==
    {[base EXCEPT !.el_spatial_resampling_filter_flag = el_flag,
                  !.disable_residual_flag = residual_flag,
                  !.use_prev_vdr_rpu_flag = prev_flag,
                  !.vdr_dm_metadata_present_flag = dm_flag,
                  !.coefficient_log2_denom = denom,
                  !.num_pivots_minus_2 = <<pivots, 0, 0>>,
                  !.pred_pivot_value =
                      IF prev_flag THEN <<>>
                      ELSE <<PivotValues(pivots + 2), PivotValues(2),
                             PivotValues(2)>>] :
        base \in {BaseNal, RichNal}, el_flag \in BOOLEAN, residual_flag \in BOOLEAN, prev_flag \in BOOLEAN,
        dm_flag \in BOOLEAN, denom \in {0, 3}, pivots \in 0..MaxPivots}

\* headers that validate() rejects, one for each of its assertions on a
\* field of the stream
BadHeaders ==
    {[BaseNal EXCEPT !.rpu_nal_prefix = 124, !.use_prev_vdr_rpu_flag = TRUE],
     [BaseNal EXCEPT !.vdr_rpu_profile = 0, !.use_prev_vdr_rpu_flag = TRUE],
     [BaseNal EXCEPT !.vdr_rpu_level = 1, !.use_prev_vdr_rpu_flag = TRUE],
     [BaseNal EXCEPT !.bl_bit_depth_minus8 = 3, !.use_prev_vdr_rpu_flag = TRUE],
     [BaseNal EXCEPT !.el_bit_depth_minus8 = 0, !.use_prev_vdr_rpu_flag = TRUE],
     [BaseNal EXCEPT !.vdr_bit_depth_minus_8 = 7, !.use_prev_vdr_rpu_flag = TRUE],
     [BaseNal EXCEPT !.coefficient_log2_denom = 24,
                     !.use_prev_vdr_rpu_flag = TRUE]}
    \cup {[nal EXCEPT !.pred_pivot_value =
                          <<PivotValues(2), PivotValues(2), PivotValues(2)>>] :
             nal \in {[BaseNal EXCEPT !.mapping_color_space = 1],
                      [BaseNal EXCEPT !.mapping_chroma_format_idc = 2],
                      [BaseNal EXCEPT !.nlq_method_idc = 1]}}

DmChoices(nal) ==
    IF ~nal.vdr_dm_metadata_present_flag THEN {<<>>}
    ELSE {<<[affected_dm_metadata_id |-> 0, signal_eotf |-> 65535,
             signal_bit_depth |-> 12, blocks |-> 0, level |-> 1, length |-> 5,
             fill |-> 1]>>,
          <<[affected_dm_metadata_id |-> 0, signal_eotf |-> 65535,
             signal_bit_depth |-> 12, blocks |-> 1, level |-> 1, length |-> 5,
             fill |-> 0]>>,
          <<[affected_dm_metadata_id |-> 15, signal_eotf |-> 65535,
             signal_bit_depth |-> 16, blocks |-> MaxExtBlocks, level |-> 2,
             length |-> 11, fill |-> 1]>>}

\* the RPUs of the headers, each with every mapping kind and display
\* management choice; an RPU with an MMR order above 2; an RPU whose pivots
\* after the first have mapping_param_pred_flag set; RPUs whose display
\* management data VdrDmData::validate rejects; an RPU whose extension blocks
\* of level 1 declare 4 bytes
RpuInputs ==
    UNION {{RpuOf(nal, kind, dm) : kind \in MappingKinds, dm \in DmChoices(nal)} :
              nal \in HeaderChoices \cup BadHeaders}
    \cup {RpuOf([BaseNal EXCEPT !.pred_pivot_value =
                     <<PivotValues(2), PivotValues(2), PivotValues(2)>>],
                "mmr3", <<>>)}
    \cup {RpuOf([BaseNal EXCEPT !.num_pivots_minus_2 = <<MaxPivots, 0, 0>>,
                                !.pred_pivot_value =
                                    <<PivotValues(MaxPivots + 2), PivotValues(2),
                                      PivotValues(2)>>],
                "pred", <<>>)}
    \cup {RpuOf([BaseNal EXCEPT !.use_prev_vdr_rpu_flag = TRUE,
                                !.vdr_dm_metadata_present_flag = TRUE],
                "other",
                <<[affected_dm_metadata_id |-> d[1], signal_eotf |-> d[2],
                   signal_bit_depth |-> d[3], blocks |-> 0, level |-> 1,
                   length |-> 5, fill |-> 1]>>) :
             d \in {<<16, 65535, 12>>, <<0, 65534, 12>>, <<0, 65535, 7>>,
                    <<0, 65535, 17>>, <<0, 65535, 8>>}}
    \cup {RpuOf([BaseNal EXCEPT !.use_prev_vdr_rpu_flag = TRUE,
                                !.vdr_dm_metadata_present_flag = TRUE],
                "other",
                <<[affected_dm_metadata_id |-> 0, signal_eotf |-> 65535,
                   signal_bit_depth |-> 12, blocks |-> MaxExtBlocks,
                   level |-> 1, length |-> 4, fill |-> 1]>>)}

\* the shortest RPU the codec accepts: a header that reuses the previous
\* RPU and carries no display management data
MinimalRpu == RpuOf([BaseNal EXCEPT !.use_prev_vdr_rpu_flag = TRUE], "other", <<>>)

----------------------------------------------------------------------------
(* The inputs of a pass: Annex-B streams, each NAL a start code, the       *)
(* header byte of its category, 01, and a body.                            *)

MaxInputLen == 21

\* 0x40 (type 32), 0x7E (type 63), 0x7C (type 62)
HeaderByte(cat) == IF cat = BLChunk THEN 64 ELSE IF cat = ELChunk THEN 126 ELSE 124

\* the payload of a NAL of len bytes; an RPU ends in 0x80, and with all80 its
\* body bytes are 0x80 too
NalPayload(cat, len, all80) ==
    [j \in 1..len |->
        IF j = 1 THEN HeaderByte(cat)
        ELSE IF j = 2 THEN 1
        ELSE IF cat = RPUChunk /\ (j = len \/ all80) THEN 128
        ELSE 160 + j]

\* the NALs of the streams: BL, EL and RPU NALs of every length, the RPU the
\* codec accepts, and an RPU cut off before its terminator
Nals ==
    {NAL_START_CODE \o NalPayload(BLChunk, len, FALSE) :
        len \in 1..(MaxInputLen - HEADER_LEN)}
    \cup {NAL_START_CODE \o NalPayload(ELChunk, len, FALSE) :
        len \in 2..(MaxInputLen - HEADER_LEN)}
    \cup {NAL_START_CODE \o NalPayload(RPUChunk, len, all80) :
        len \in 3..(MaxInputLen - HEADER_LEN), all80 \in BOOLEAN}
    \cup {NAL_START_CODE \o <<HeaderByte(RPUChunk), 1>> \o MinimalRpu}
    \cup {NAL_START_CODE \o <<HeaderByte(RPUChunk), 1, 163>>}

\* the streams of at most n bytes
RECURSIVE Streams(_)
Streams(n) ==
    {<<>>} \cup UNION {{nal \o rest : rest \in Streams(n - Len(nal))} :
                          nal \in {x \in Nals : Len(x) <= n}}

\* ByteSliceIter::new(reader, 100_000), scaled down: the smallest slices that
\* hold a start code and the bytes around it, and a slice that holds the
\* whole input
ChunkSizes == {2 * HEADER_LEN, 2 * HEADER_LEN + 1, MaxInputLen}

Modes == {<<>>, <<0>>, <<2>>}

----------------------------------------------------------------------------
(* The pass as a state machine                                             *)

Cur ==
    [ mode |-> mode, skip_next |-> skip_next, bl_writer |-> bl_writer,
      el_writer |-> el_writer, rpu_writer |-> rpu_writer, pos |-> pos,
      read_data |-> read_data, current_chunk_type |-> current_chunk_type,
      consumed |-> consumed, no_next_nal |-> no_next_nal,
      nal_type_index |-> nal_type_index, current_rpu |-> current_rpu,
      parsed |-> parsed, flushed |-> flushed, pc |-> pc ]

Becomes(t) ==
    /\ mode' = t.mode
    /\ skip_next' = t.skip_next
    /\ bl_writer' = t.bl_writer
    /\ el_writer' = t.el_writer
    /\ rpu_writer' = t.rpu_writer
    /\ pos' = t.pos
    /\ read_data' = t.read_data
    /\ current_chunk_type' = t.current_chunk_type
    /\ consumed' = t.consumed
    /\ no_next_nal' = t.no_next_nal
    /\ nal_type_index' = t.nal_type_index
    /\ current_rpu' = t.current_rpu
    /\ parsed' = t.parsed
    /\ flushed' = t.flushed
    /\ pc' = t.pc

CodecIdle ==
    /\ codec_data = <<>>
    /\ codec_nal = RpuNalDefault
    /\ codec_out = <<>>
    /\ cpc = "idle"

Init ==
    /\ input \in Streams(MaxInputLen)
    /\ chunk_size \in ChunkSizes
    /\ \E m \in Modes, bl \in BOOLEAN, el \in BOOLEAN, rpu \in BOOLEAN :
           LET s == NewPass(m, bl, el, rpu)
           IN  /\ mode = s.mode
               /\ skip_next = s.skip_next
               /\ bl_writer = s.bl_writer
               /\ el_writer = s.el_writer
               /\ rpu_writer = s.rpu_writer
               /\ pos = s.pos
               /\ read_data = s.read_data
               /\ current_chunk_type = s.current_chunk_type
               /\ consumed = s.consumed
               /\ no_next_nal = s.no_next_nal
               /\ nal_type_index = s.nal_type_index
               /\ current_rpu = s.current_rpu
               /\ parsed = s.parsed
               /\ flushed = s.flushed
               /\ pc = s.pc
    \* read_write_from_io has no statement that writes a message: pb is not
    \* used, and the only text is that of the panics
    /\ warnings = <<>>
    /\ CodecIdle

\* while let Some(read_data) = iter.next()?
NextChunk ==
    /\ pc = "read"
    /\ pos < Len(input)
    /\ Becomes(IterNext(Cur, input, chunk_size))
    /\ UNCHANGED <<input, chunk_size, warnings, codec_vars>>

\* match Self::take_until_nal(&read_data[consumed..]) { Ok(nal) => ...
ScanFound ==
    /\ pc = "scan"
    /\ consumed <= Len(read_data)
    /\ take_until_nal(From(read_data, consumed)).ok
    /\ Becomes(ScanOk(Cur))
    /\ UNCHANGED <<input, chunk_size, warnings, codec_vars>>

\* ... Err(nom::Err::Error(_)) => ...
ScanNotFound ==
    /\ pc = "scan"
    /\ consumed <= Len(read_data)
    /\ ~take_until_nal(From(read_data, consumed)).ok
    /\ Becomes(ScanErr(Cur))
    /\ UNCHANGED <<input, chunk_size, warnings, codec_vars>>

\* the end of the input: the flushes and Ok(())
EndOfInput ==
    /\ pc = "read"
    /\ pos >= Len(input)
    /\ Becomes(FlushAll(Cur))
    /\ UNCHANGED <<input, chunk_size, warnings, codec_vars>>

\* iter.next()? when the read fails: the error is returned to the caller at
\* once, past the flushes of lines 226-238
ReadError ==
    /\ pc = "read"
    /\ pos < Len(input)
    /\ pc' = "error"
    /\ UNCHANGED <<input, chunk_size, pos, mode, skip_next, bl_writer, el_writer,
                   rpu_writer, read_data, current_chunk_type, consumed,
                   no_next_nal, nal_type_index, current_rpu, parsed, flushed,
                   warnings, codec_vars>>

Next == NextChunk \/ ScanFound \/ ScanNotFound \/ EndOfInput \/ ReadError

Spec == Init /\ [][Next]_vars

----------------------------------------------------------------------------
(* The codec as a state machine: parse_dovi_rpu applied to one RPU, and    *)
(* the header of its output read back                                      *)

\* the splitter at rest
PassIdle ==
    /\ input = <<>>
    /\ chunk_size = 2 * HEADER_LEN
    /\ skip_next = 0
    /\ bl_writer = <<>>
    /\ el_writer = <<>>
    /\ rpu_writer = <<>>
    /\ pos = 0
    /\ read_data = <<>>
    /\ current_chunk_type = <<>>
    /\ consumed = 0
    /\ no_next_nal = FALSE
    /\ nal_type_index = HEADER_LEN
    /\ current_rpu = <<>>
    /\ parsed = <<>>
    /\ flushed = {}
    /\ warnings = <<>>
    /\ pc = "idle"

\* write_nal_data calls the codec when self.mode is Some(mode)
InitRpu ==
    /\ PassIdle
    /\ mode \in Modes \ {<<>>}
    /\ codec_data \in RpuInputs
    /\ codec_nal = RpuNalDefault
    /\ codec_out = <<>>
    /\ cpc = "ready"

\* the result r of parse_dovi_rpu
Parsed(r) ==
    /\ codec_nal' = r.rpu_nal
    /\ codec_out' = r.bytes
    /\ cpc' = IF r.ok THEN "parsed" ELSE "panic"

\* parse_dovi_rpu(&data)
ParseRpu ==
    /\ cpc = "ready"
    /\ Parsed(parse_dovi_rpu(codec_data))
    /\ UNCHANGED <<codec_data, pass_vars>>

\* the header that a decoder reads from bytes
HeaderOf(bytes) ==
    read_rpu_data(BytesToBits(clear_start_code_emulation_prevention_3_byte(bytes)),
                  TRUE)

\* the header of the output r read back
ReadBack(r) ==
    /\ codec_nal' = r.nal
    /\ cpc' = IF r.ok THEN "read_back" ELSE "unreadable"

\* read_rpu_data(reader, true) on the bytes parse_dovi_rpu returned
ReadOutputHeader ==
    /\ cpc = "parsed"
    /\ ReadBack(HeaderOf(codec_out))
    /\ UNCHANGED <<codec_data, codec_out, pass_vars>>

NextRpu == ParseRpu \/ ReadOutputHeader

SpecRpu == InitRpu /\ [][NextRpu]_vars

----------------------------------------------------------------------------
(* The emulation-prevention codec as a state machine: add applied to a     *)
(* byte sequence, then clear applied to the result                         *)

MaxEscapeLen == 5

\* the byte sequences of at most MaxEscapeLen bytes over 00..04
InitEscape ==
    /\ PassIdle
    /\ mode = <<>>
    /\ codec_data \in UNION {[1..n -> 0..4] : n \in 0..MaxEscapeLen}
    /\ codec_nal = RpuNalDefault
    /\ codec_out = <<>>
    /\ cpc = "ready"

\* add_start_code_emulation_prevention_3_byte(&mut data_to_write)
AddEmulation ==
    /\ cpc = "ready"
    /\ codec_out' = add_start_code_emulation_prevention_3_byte(codec_data)
    /\ cpc' = "added"
    /\ UNCHANGED <<codec_data, codec_nal, pass_vars>>

\* clear_start_code_emulation_prevention_3_byte(&data)
ClearEmulation ==
    /\ cpc = "added"
    /\ codec_out' = clear_start_code_emulation_prevention_3_byte(codec_out)
    /\ cpc' = "cleared"
    /\ UNCHANGED <<codec_data, codec_nal, pass_vars>>

SpecEscape == InitEscape /\ [][AddEmulation \/ ClearEmulation]_vars

----------------------------------------------------------------------------
(* Chunk invariance                                                        *)

\* the pass over the whole input as a single chunk, same sinks, same mode
WholeRun ==
    RunAll(NewPass(mode, bl_writer # <<>>, el_writer # <<>>, rpu_writer # <<>>),
           input, Len(input))

\* C1: chunk invariance.  When the pass over the whole input as one chunk
\* completes, the pass with any other chunk size completes too and leaves the
\* BL, EL and RPU sinks each byte-identical to those of the one-chunk pass.
C1_ChunkInvariance ==
    (pc \in {"done", "panic"} /\ WholeRun.pc = "done")
        => /\ pc = "done"
           /\ bl_writer = WholeRun.bl_writer
           /\ el_writer = WholeRun.el_writer
           /\ rpu_writer = WholeRun.rpu_writer

----------------------------------------------------------------------------
(* What the sinks should hold, NAL by NAL                                  *)

\* the payloads of the NALs of an Annex-B stream, in order
RECURSIVE NalPayloads(_)
NalPayloads(d) ==
    IF Len(d) < HEADER_LEN THEN <<>>
    ELSE IF take_until_nal(From(d, HEADER_LEN)).ok
    THEN <<take_until_nal(From(d, HEADER_LEN)).taken>>
         \o NalPayloads(take_until_nal(From(d, HEADER_LEN)).rest)
    ELSE <<From(d, HEADER_LEN)>>

\* the category of a NAL, from its header byte
CategoryOf(payload) == ChunkTypeOf(payload[1] \div 2)

\* start code and payload; an EL or RPU payload without its two-byte prefix
SinkEntry(payload) ==
    NAL_START_CODE
    \o (IF CategoryOf(payload) = BLChunk THEN payload ELSE From(payload, 2))

\* the entries of the NALs of category cat, concatenated in input order
RECURSIVE SinkOf(_, _)
SinkOf(payloads, cat) ==
    IF payloads = <<>> THEN <<>>
    ELSE (IF CategoryOf(Head(payloads)) = cat THEN SinkEntry(Head(payloads))
          ELSE <<>>)
         \o SinkOf(Tail(payloads), cat)

AllSinks == bl_writer # <<>> /\ el_writer # <<>> /\ rpu_writer # <<>>

\* C2: splitter faithfulness.  With all three sinks and no mode the pass
\* completes, and each sink holds exactly the NALs of its category, once each
\* and in input order, as start code and payload, the EL payload without its
\* two-byte prefix and the RPU payload without 7C 01.
C2_SplitterFaithful ==
    (pc \in {"done", "panic"} /\ mode = <<>> /\ AllSinks)
        => /\ pc = "done"
           /\ bl_writer = <<SinkOf(NalPayloads(input), BLChunk)>>
           /\ el_writer = <<SinkOf(NalPayloads(input), ELChunk)>>
           /\ rpu_writer = <<SinkOf(NalPayloads(input), RPUChunk)>>

----------------------------------------------------------------------------
(* Classification                                                          *)

\* the bytes of the chunk from the start code the scan finds
FoundNal == take_until_nal(From(read_data, consumed)).rest

\* the scan finds a start code that the chunk holds together with the header
\* byte after it
FoundWithHeaderByte ==
    /\ pc = "scan"
    /\ consumed <= Len(read_data)
    /\ take_until_nal(From(read_data, consumed)).ok
    /\ Len(FoundNal) > HEADER_LEN

\* C3: NAL classification.  Whenever the scan finds a start code that lies in
\* the chunk together with the byte h after it, and the pass goes on, the
\* current category becomes RPU when h >> 1 is 62, EL when it is 63, BL otherwise.
C3_Classification ==
    [][(FoundWithHeaderByte /\ pc' # "panic")
          => current_chunk_type' = <<ChunkTypeOf(FoundNal[HEADER_LEN + 1] \div 2)>>]_vars

\* s is a suffix of t
IsSuffix(s, t) == Len(s) <= Len(t) /\ SubSeq(t, Len(t) - Len(s) + 1, Len(t)) = s

\* the NAL the scan finds ends inside the chunk: another start code follows it
\* there, or the input ends with the chunk
FoundWhole ==
    \/ take_until_nal(From(FoundNal, HEADER_LEN)).ok
    \/ pos = Len(input)

\* what the sink of an EL or RPU NAL found by the scan should receive
FoundEntry ==
    NAL_START_CODE \o SubSeq(FoundNal, HEADER_LEN + 3, NalSize(FoundNal))

\* the chunk does not begin with the rest of an earlier NAL
NothingPrevious == consumed # 0 \/ current_chunk_type = <<>>

\* C4: EL prefix stripping.  When the scan finds an EL NAL (header byte 7E) that
\* lies wholly in the chunk and has at least two payload bytes, the EL sink ends
\* with the start code and the payload without its first two bytes, and
\* receives exactly that when the chunk holds nothing of an earlier NAL.
C4_ElPrefixStripped ==
    [][(/\ FoundWithHeaderByte
        /\ FoundNal[HEADER_LEN + 1] \div 2 = 63
        /\ FoundWhole
        /\ NalSize(FoundNal) >= HEADER_LEN + 2
        /\ el_writer # <<>>
        /\ pc' # "panic")
          => /\ IsSuffix(FoundEntry, el_writer'[1])
             /\ NothingPrevious => el_writer'[1] = el_writer[1] \o FoundEntry]_vars

----------------------------------------------------------------------------
(* RPU routing                                                             *)

\* the payload of the NAL the scan finds, start code removed
FoundPayload == SubSeq(FoundNal, HEADER_LEN + 1, NalSize(FoundNal))

\* the scan finds a complete RPU NAL (header byte 7C, last byte 0x80) that lies
\* wholly in the chunk, and the chunk holds nothing of an earlier NAL
FoundCompleteRpu ==
    /\ FoundWithHeaderByte
    /\ FoundNal[HEADER_LEN + 1] \div 2 = 62
    /\ FoundWhole
    /\ FoundNal[NalSize(FoundNal)] = 128
    /\ NothingPrevious

\* the bytes of an RPU that go to a sink: the payload, or with a mode the
\* output of the codec for it
RpuBytes == IF mode = <<>> THEN FoundPayload ELSE parse_dovi_rpu(FoundPayload).bytes

\* C5: RPU sink convention.  With an RPU sink, a complete RPU NAL adds to the
\* RPU sink exactly the start code and its bytes (the codec output under a
\* mode, the payload otherwise) without their first two bytes, and adds
\* nothing to the EL sink.
C5_RpuSinkConvention ==
    [][(FoundCompleteRpu /\ rpu_writer # <<>>)
          => /\ pc' # "panic"
             /\ rpu_writer'[1] = rpu_writer[1] \o NAL_START_CODE \o From(RpuBytes, 2)
             /\ el_writer' = el_writer]_vars

\* C6: RPU fallback to EL.  Without an RPU sink and with an EL sink, a complete
\* RPU NAL adds to the EL sink, after what the sink already holds, the start
\* code and its full bytes (the codec output under a mode, the payload
\* otherwise), 7C 01 included.
C6_RpuFallbackToEl ==
    [][(FoundCompleteRpu /\ rpu_writer = <<>> /\ el_writer # <<>>)
          => /\ pc' # "panic"
             /\ el_writer'[1] = el_writer[1] \o NAL_START_CODE \o RpuBytes]_vars

----------------------------------------------------------------------------
(* Mode absent                                                             *)

\* C7: mode absent is a pure copy.  Without a mode the codec is never given
\* any bytes, and with an RPU sink the pass completes with that sink holding,
\* for each RPU NAL in input order, the start code and exactly its input
\* payload bytes after 7C 01.
C7_ModeAbsentCopy ==
    mode = <<>>
        => /\ parsed = <<>>
           /\ (pc \in {"done", "panic"} /\ rpu_writer # <<>>)
                 => /\ pc = "done"
                    /\ rpu_writer = <<SinkOf(NalPayloads(input), RPUChunk)>>

----------------------------------------------------------------------------
(* The codec under a mode                                                  *)

\* the record the decoder reads from the RPU given to the codec
InputDecoded ==
    read_rpu_data(BytesToBits(clear_start_code_emulation_prevention_3_byte(codec_data)),
                  FALSE)

\* the header the decoder reads from the RPU given to the codec
InputHeader == HeaderOf(codec_data)

\* C8: mode 0 does not mutate.  Under mode 0 the record the codec holds after
\* parsing has every field as decoded from the input, and the header read back
\* from the re-serialized bytes equals the header of the input, the flags
\* el_spatial_resampling_filter_flag and disable_residual_flag included.
C8_Mode0DoesNotMutate ==
    mode = <<0>>
        => /\ cpc = "parsed" => codec_nal = InputDecoded.nal
           /\ cpc \in {"read_back", "unreadable"}
                 => cpc = "read_back" /\ codec_nal = InputHeader.nal

\* the header h with the 8.1 values of the two flags, its end at bit header_end
ConvertedHeader(h, header_end) ==
    [h EXCEPT !.el_spatial_resampling_filter_flag = FALSE,
              !.disable_residual_flag = TRUE,
              !.header_end = header_end]

\* the RPU given to the codec has a header the decoder accepts, with
\* el_spatial_resampling_filter_flag set and disable_residual_flag clear
Mode2Case ==
    /\ mode = <<2>>
    /\ InputHeader.ok
    /\ InputHeader.nal.el_spatial_resampling_filter_flag
    /\ ~InputHeader.nal.disable_residual_flag

\* C9: mode 2 conversion.  For an RPU whose header has
\* el_spatial_resampling_filter_flag = true and disable_residual_flag = false,
\* the header decoded from the re-serialized output has
\* el_spatial_resampling_filter_flag = false, disable_residual_flag = true and
\* every other header field equal to the input's.
C9_Mode2Conversion ==
    (Mode2Case /\ cpc \in {"read_back", "unreadable"})
        => /\ cpc = "read_back"
           /\ codec_nal = ConvertedHeader(InputHeader.nal, codec_nal.header_end)

\* C9 on an RPU with mapping data: the header was converted, re-serialized and
\* read back
C9_Witness ==
    /\ Mode2Case
    /\ cpc = "read_back"
    /\ ~InputHeader.nal.use_prev_vdr_rpu_flag
    /\ codec_out # codec_data

----------------------------------------------------------------------------
(* to_81                                                                   *)

\* the records to_81 is applied to: the one decoded from the RPU given to the
\* codec, and the one the codec holds
RpuNalValues == {InputDecoded.nal, InputHeader.nal, codec_nal}

\* C10: to_81 is idempotent.  For every record, applying to_81 twice yields
\* the same record as applying it once.
C10_To81Idempotent ==
    \A nal \in RpuNalValues : to_81(to_81(nal)) = to_81(nal)

\* C10 where to_81 changes the record it is given: the codec has parsed an RPU
\* whose el_spatial_resampling_filter_flag was set
C10_Witness ==
    /\ cpc = "parsed"
    /\ InputDecoded.ok
    /\ InputDecoded.nal.el_spatial_resampling_filter_flag
    /\ codec_nal = to_81(InputDecoded.nal)
    /\ codec_nal # InputDecoded.nal

----------------------------------------------------------------------------
(* Round trips                                                             *)

\* the bits of the RPU given to the codec, emulation prevention removed
InputBits ==
    BytesToBits(clear_start_code_emulation_prevention_3_byte(codec_data))

\* C11: passthrough round trip.  For every RPU that decodes, writing the
\* decoded header unchanged, splicing the cleared input's bits from header_end
\* on and adding emulation prevention yields the input byte for byte.
C11_PassthroughRoundTrip ==
    InputDecoded.ok => Reserialize(InputBits, InputDecoded.nal) = codec_data

\* C11 where the codec itself did the passthrough: to_81 left the decoded
\* record as it was, the RPU carries mapping and display-management data and
\* emulation-prevention bytes, and the codec returned the input
C11_Witness ==
    /\ cpc = "parsed"
    /\ InputDecoded.ok
    /\ codec_nal = InputDecoded.nal
    /\ ~codec_nal.use_prev_vdr_rpu_flag
    /\ codec_nal.vdr_dm_metadata_present_flag
    /\ ClearDropped(codec_data) # {}
    /\ codec_out = codec_data

\* d holds 00 00 followed by a byte <= 03
HasForbidden(d) ==
    \E i \in 1..(Len(d) - 2) : d[i] = 0 /\ d[i + 1] = 0 /\ d[i + 2] <= 3

\* C12: emulation-prevention round trip.  For every byte sequence x that
\* holds none of 00 00 00, 00 00 01, 00 00 02 and 00 00 03, clear(add(x)) is x.
C12_EmulationRoundTrip ==
    (cpc = "cleared" /\ ~HasForbidden(codec_data)) => codec_out = codec_data

\* C12 on a sequence with two zero bytes and a 03 after a single zero, none of
\* them forbidden
C12_Witness ==
    /\ cpc = "cleared"
    /\ ~HasForbidden(codec_data)
    /\ \E i \in 1..(Len(codec_data) - 1) : codec_data[i] = 0 /\ codec_data[i + 1] = 0
    /\ \E i \in 1..(Len(codec_data) - 1) : codec_data[i] = 0 /\ codec_data[i + 1] = 3
    /\ codec_out = codec_data

----------------------------------------------------------------------------
(* Validation on decode                                                    *)

\* the codec returned a record and bytes
Accepted == cpc \in {"parsed", "read_back", "unreadable"}

\* the decode ended in the failure and the caller holds no record
Rejected == cpc = "panic" /\ codec_out = <<>> /\ codec_nal = RpuNalDefault

\* the conditions on the header fields read from the RPU given to the codec
HeaderConditions(nal) ==
    /\ nal.rpu_nal_prefix = 25
    /\ nal.vdr_rpu_profile = 1
    /\ nal.vdr_rpu_level = 0
    /\ nal.bl_bit_depth_minus8 = 2
    /\ nal.el_bit_depth_minus8 = 2
    /\ nal.vdr_bit_depth_minus_8 <= 6
    /\ nal.mapping_color_space = 0
    /\ nal.mapping_chroma_format_idc = 0
    /\ nal.coefficient_log2_denom <= 23
    /\ nal.nlq_method_idc = 0

\* the conditions on the display management fields, when they were read
DmConditions(nal) ==
    nal.vdr_dm_data # <<>> =>
        /\ nal.vdr_dm_data[1].affected_dm_metadata_id <= 15
        /\ nal.vdr_dm_data[1].signal_bit_depth >= 8
        /\ nal.vdr_dm_data[1].signal_bit_depth <= 16
        /\ nal.vdr_dm_data[1].signal_eotf = 65535

\* the RPU given to the codec has a pivot with mmr_order_minus1 = 3
MmrOrderAbove2 ==
    codec_data = RpuOf([BaseNal EXCEPT !.pred_pivot_value =
                           <<PivotValues(2), PivotValues(2), PivotValues(2)>>],
                       "mmr3", <<>>)

\* the RPU given to the codec breaks one of the conditions
Violation ==
    \/ ~HeaderConditions(InputDecoded.nal)
    \/ ~DmConditions(InputDecoded.nal)
    \/ MmrOrderAbove2

\* C13: validation on decode.  An RPU that the codec accepted satisfies every
\* condition on its header fields, on its MMR orders and, when display
\* management data is present, on affected_dm_metadata_id, signal_bit_depth
\* and signal_eotf; an RPU that breaks a condition ends the decode in the
\* failure, and the caller gets no record and no bytes.
C13_ValidationOnDecode ==
    /\ Accepted => ~Violation
    /\ (cpc # "ready" /\ Violation) => Rejected

\* a decode that reached the display management data of an RPU with a valid
\* header and found signal_eotf other than 65535
C13_Witness ==
    /\ Rejected
    /\ HeaderConditions(InputDecoded.nal)
    /\ InputDecoded.nal.vdr_dm_data # <<>>
    /\ InputDecoded.nal.vdr_dm_data[1].signal_eotf = 65534
    /\ InputDecoded.nal.vdr_dm_data[1].signal_bit_depth = 12

----------------------------------------------------------------------------
(* The RPU wire format                                                     *)

\* p is 7C 01 followed by an RPU that the decoder accepts and that ends in
\* the terminator
WellFormedRpuPayload(p) ==
    /\ Len(p) > 2
    /\ p[1] = HeaderByte(RPUChunk) /\ p[2] = 1
    /\ p[Len(p)] = 128
    /\ parse_dovi_rpu(From(p, 2)).ok

\* the codec accepts p and returns bytes that begin with 7C 01
AcceptedWithPrefix(p) ==
    /\ parse_dovi_rpu(p).ok
    /\ Len(parse_dovi_rpu(p).bytes) >= 2
    /\ parse_dovi_rpu(p).bytes[1] = HeaderByte(RPUChunk)
    /\ parse_dovi_rpu(p).bytes[2] = 1

\* C14: RPU wire format.  Every payload the splitter hands to the codec begins
\* with 7C 01, and when what follows is a well-formed RPU the codec accepts
\* the payload and returns bytes that begin with 7C 01 again.
C14_RpuWireFormat ==
    \A i \in 1..Len(parsed) :
        /\ Len(parsed[i]) >= 2
        /\ parsed[i][1] = HeaderByte(RPUChunk) /\ parsed[i][2] = 1
        /\ WellFormedRpuPayload(parsed[i]) => AcceptedWithPrefix(parsed[i])

----------------------------------------------------------------------------
(* Start codes split across chunks                                         *)

\* a start code begins at byte k of the input
StartCodeAt(k) ==
    k + HEADER_LEN - 1 <= Len(input) /\ SubSeq(input, k, k + HEADER_LEN - 1) = NAL_START_CODE

\* the start code at byte k has 1, 2 or 3 of its bytes at the end of a chunk
\* and the rest at the start of the next one
Straddles(k) ==
    StartCodeAt(k) /\ \E b \in k..(k + HEADER_LEN - 2) : b % chunk_size = 0

\* the input has no RPU NAL
NoRpuNal ==
    \A i \in 1..Len(NalPayloads(input)) :
        CategoryOf(NalPayloads(input)[i]) # RPUChunk

\* C15: start code split across chunks.  When a start code of an input of BL
\* and EL NALs straddles a chunk boundary and the pass completes, as the pass
\* over the same input in one chunk does, every sink holds the bytes it holds
\* after the one-chunk pass: the NAL is detected and classified as when its
\* start code lies inside one chunk, and its payload is in the sink of its
\* category.
C15_StartCodeAcrossChunks ==
    (/\ pc = "done"
     /\ WholeRun.pc = "done"
     /\ NoRpuNal
     /\ \E k \in 1..Len(input) : Straddles(k))
        => /\ bl_writer = WholeRun.bl_writer
           /\ el_writer = WholeRun.el_writer
           /\ rpu_writer = WholeRun.rpu_writer

----------------------------------------------------------------------------
(* RPUs that span chunks                                                   *)

\* the input is one RPU NAL whose start code lies in the first chunk and
\* whose payload goes on in the chunks after it
OneRpuOverChunks ==
    /\ Len(NalPayloads(input)) = 1
    /\ CategoryOf(NalPayloads(input)[1]) = RPUChunk
    /\ Len(input) > chunk_size

\* C16: RPU spanning chunks.  Without a mode and with an RPU sink, an RPU NAL
\* whose payload is spread over two or more chunks is in the RPU sink once the
\* pass has ended, exactly as after the pass over the same input in one
\* chunk: one start code followed by the bytes of the RPU, contiguous.
C16_RpuAcrossChunks ==
    (/\ pc \in {"done", "panic"}
     /\ mode = <<>>
     /\ rpu_writer # <<>>
     /\ OneRpuOverChunks)
        => /\ pc = "done"
           /\ rpu_writer = WholeRun.rpu_writer
           /\ rpu_writer = <<NAL_START_CODE \o From(NalPayloads(input)[1], 2)>>

----------------------------------------------------------------------------
(* Ordering within a sink                                                  *)

\* the bytes of out from i on appear, in order, among the bytes of d from j on
RECURSIVE InOrderFrom(_, _, _, _)
InOrderFrom(out, i, d, j) ==
    IF i > Len(out) THEN TRUE
    ELSE IF j > Len(d) THEN FALSE
    ELSE IF out[i] = d[j] THEN InOrderFrom(out, i + 1, d, j + 1)
    ELSE InOrderFrom(out, i, d, j + 1)

\* the bytes of a sink are bytes of the input in input order
InInputOrder(w) == w = <<>> \/ InOrderFrom(w[1], 1, input, 1)

\* the bytes of d other than those of start codes and prefixes: every byte of
\* a sink that is not 00 or 01 was copied from the input
Copied(d) == SelectSeq(d, LAMBDA b : b > 1)

\* the copied bytes of a sink are bytes of the input in input order
CopiedInInputOrder(w) == w = <<>> \/ InOrderFrom(Copied(w[1]), 1, input, 1)

\* C17: per-sink ordering.  Without a mode, at every moment of a pass the bytes
\* each sink has received from the input are in the order they have in the
\* input: no byte is in a sink before a byte that precedes it in the input.
C17_PerSinkOrdering ==
    mode = <<>> => /\ CopiedInInputOrder(bl_writer)
                   /\ CopiedInInputOrder(el_writer)
                   /\ CopiedInInputOrder(rpu_writer)

----------------------------------------------------------------------------
(* A pass without sinks                                                    *)

\* the BL, EL and RPU outputs are all unset
NoSinks == bl_writer = <<>> /\ el_writer = <<>> /\ rpu_writer = <<>>

\* C18: NoSink.  When no output is set and there is input, the pass reads no
\* chunk of it, scans nothing and does not end with Ok.
C18_NoSink ==
    (NoSinks /\ input # <<>>)
            => /\ pos = 0
               /\ read_data = <<>>
               /\ pc \notin {"scan", "done"}

----------------------------------------------------------------------------
(* Flushing                                                                *)

\* the sinks that exist
PresentSinks ==
    {w \in {"bl", "el", "rpu"} : \/ w = "bl" /\ bl_writer # <<>>
                                 \/ w = "el" /\ el_writer # <<>>
                                 \/ w = "rpu" /\ rpu_writer # <<>>}

\* C19: flush on every exit path.  Whenever the pass has ended, at the end of
\* the input, on a failed read or on a failure of the codec, every sink that
\* exists has been flushed.
C19_FlushOnEveryExit ==
    pc \in {"done", "error", "panic"} => flushed = PresentSinks

----------------------------------------------------------------------------
(* A truncated RPU at the end of the input                                 *)

\* the input is a single RPU NAL that ends before its terminator
OnlyTruncatedRpu ==
    /\ Len(NalPayloads(input)) = 1
    /\ CategoryOf(NalPayloads(input)[1]) = RPUChunk
    /\ input[Len(input)] # 128

\* no sink has received a byte
NothingWritten ==
    /\ bl_writer \in {<<>>, <<<<>>>>}
    /\ el_writer \in {<<>>, <<<<>>>>}
    /\ rpu_writer \in {<<>>, <<<<>>>>}

\* C20: truncated RPU at end of input.  When the pass over an input that is
\* one RPU NAL without its terminator has ended successfully with the bytes
\* of the RPU in the accumulator, no sink has received any of them and the
\* pass has written a warning.
C20_TruncatedRpuAtEnd ==
    (pc = "done" /\ current_rpu # <<>> /\ OnlyTruncatedRpu)
        => NothingWritten /\ warnings # <<>>

----------------------------------------------------------------------------
(* A start code at the end of a chunk                                      *)

\* the four bytes of the start code at byte k are the last bytes of a chunk,
\* and the input goes on
EndsChunk(k) ==
    /\ StartCodeAt(k)
    /\ (k + HEADER_LEN - 1) % chunk_size = 0
    /\ k + HEADER_LEN - 1 < Len(input)

\* C21: start code at the end of a chunk.  When a start code of an input of
\* BL and EL NALs is the end of a chunk and the pass completes, as the pass
\* over the same input in one chunk does, every sink holds the bytes it holds
\* after the one-chunk pass: the NAL is classified from the first byte of the
\* next chunk, the bytes that follow go to the sink of that category, and the
\* start code is in that sink once.
C21_StartCodeEndsChunk ==
    (/\ pc = "done"
     /\ WholeRun.pc = "done"
     /\ NoRpuNal
     /\ \E k \in 1..Len(input) : EndsChunk(k))
        => /\ bl_writer = WholeRun.bl_writer
           /\ el_writer = WholeRun.el_writer
           /\ rpu_writer = WholeRun.rpu_writer

----------------------------------------------------------------------------
(* The EL prefix across a chunk boundary                                   *)

\* an EL NAL begins at byte k and a chunk ends after the first or after the
\* second byte of its prefix, with payload bytes still to come
ElPrefixCut(k) ==
    /\ StartCodeAt(k)
    /\ k + HEADER_LEN + 2 <= Len(input)
    /\ ChunkTypeOf(input[k + HEADER_LEN] \div 2) = ELChunk
    /\ \E n \in 1..2 : (k + HEADER_LEN - 1 + n) % chunk_size = 0

\* C22: EL prefix across a chunk boundary.  Without a mode, when a chunk ends
\* after one or two bytes of the prefix of an EL NAL of an input of BL and EL
\* NALs, and the pass over the input in one chunk leaves in the EL sink every
\* EL NAL as start code and payload without its first two bytes, the chunked
\* pass completes with the same EL sink.
C22_ElPrefixAcrossChunks ==
    (/\ pc \in {"done", "panic"}
     /\ mode = <<>>
     /\ el_writer # <<>>
     /\ NoRpuNal
     /\ WholeRun.pc = "done"
     /\ WholeRun.el_writer = <<SinkOf(NalPayloads(input), ELChunk)>>
     /\ \E k \in 1..Len(input) : ElPrefixCut(k))
        => /\ pc = "done"
           /\ el_writer = WholeRun.el_writer

----------------------------------------------------------------------------
(* RPU completeness                                                        *)

\* p is the whole payload of an RPU NAL of the input and ends in the
\* terminator
WholeRpuNal(p) ==
    /\ p # <<>>
    /\ p[Len(p)] = 128
    /\ \E j \in 1..Len(NalPayloads(input)) :
           /\ NalPayloads(input)[j] = p
           /\ CategoryOf(p) = RPUChunk

\* C23: RPU completeness.  Every byte sequence handed to the RPU codec is one
\* whole RPU NAL of the input: it starts at the first payload byte of the NAL
\* and its last byte is the terminator 0x80.
C23_RpuCompleteness ==
    \A i \in 1..Len(parsed) : WholeRpuNal(parsed[i])

----------------------------------------------------------------------------
(* One start code per NAL                                                  *)

\* the number of start codes in the bytes d
StartCodes(d) ==
    Cardinality({k \in 1..(Len(d) - HEADER_LEN + 1) :
                    SubSeq(d, k, k + HEADER_LEN - 1) = NAL_START_CODE})

\* the number of start codes in a sink
StartCodesIn(w) == IF w = <<>> THEN 0 ELSE StartCodes(w[1])

\* every RPU NAL of the input ends in the terminator
RpusComplete ==
    \A i \in 1..Len(NalPayloads(input)) :
        CategoryOf(NalPayloads(input)[i]) = RPUChunk
            => NalPayloads(input)[i][Len(NalPayloads(input)[i])] = 128

\* C24: one start code per NAL.  Without a mode and with all three sinks,
\* when the pass over an input whose RPUs are complete has completed, the
\* sinks hold as many start codes as the input has NALs: one for each NAL,
\* and none that no NAL of the input accounts for.
C24_OneStartCodePerNal ==
    (pc = "done" /\ mode = <<>> /\ AllSinks /\ RpusComplete)
        => StartCodesIn(bl_writer) + StartCodesIn(el_writer)
               + StartCodesIn(rpu_writer) = Len(NalPayloads(input))

----------------------------------------------------------------------------
(* skip_next at the chunk boundaries                                       *)

\* the start code at byte k is the last one the chunks read so far hold whole
LastStartCodeRead(k) ==
    /\ StartCodeAt(k)
    /\ k + HEADER_LEN - 1 <= pos
    /\ \A j \in (k + 1)..Len(input) :
           StartCodeAt(j) => j + HEADER_LEN - 1 > pos

\* the NAL being streamed is an EL NAL of which fewer than two payload bytes
\* were read, and n is the number of its prefix bytes still to come
ElPrefixPending(n) ==
    \E k \in 1..Len(input) :
        /\ LastStartCodeRead(k)
        /\ k + HEADER_LEN <= Len(input)
        /\ ChunkTypeOf(input[k + HEADER_LEN] \div 2) = ELChunk
        /\ pos - (k + HEADER_LEN - 1) < 2
        /\ n = 2 - (pos - (k + HEADER_LEN - 1))

\* C25: skip_next invariant.  At every chunk boundary skip_next is 0, 1 or 2,
\* and when it is not 0 the NAL being streamed is an EL NAL with fewer than
\* two payload bytes read, and skip_next is the number of its prefix bytes
\* still to be dropped.
C25_SkipNextInvariant ==
    pc = "read" => /\ skip_next \in 0..2
                   /\ skip_next # 0 => ElPrefixPending(skip_next)

----------------------------------------------------------------------------
(* The mapping predictor flag                                              *)

\* the RPU given to the codec has MaxPivots + 1 pivots in component 0, and
\* every pivot after the first carries mapping_idc 0 and a set
\* mapping_param_pred_flag, without parameters
PredFlagRpu ==
    codec_data = RpuOf([BaseNal EXCEPT !.num_pivots_minus_2 = <<MaxPivots, 0, 0>>,
                                      !.pred_pivot_value =
                                          <<PivotValues(MaxPivots + 2),
                                            PivotValues(2), PivotValues(2)>>],
                       "pred", <<>>)

\* the decoder after the header of the RPU given to the codec
AfterHeader == HeaderEnd(rpu_data_header(InputBits))

\* the decoder after pivot 0 of component 0, whose predictor count is 0
AfterFirstPivot ==
    MappingParam(InputBits, AfterHeader, 0, 0,
                 coefficient_log2_denom_length(AfterHeader.nal),
                 get_ue(InputBits, AfterHeader.pos))

\* the decoder after pivot 1 of component 0, whose predictor count is 1
AfterSecondPivot ==
    MappingParam(InputBits, AfterFirstPivot, 0, 1,
                 coefficient_log2_denom_length(AfterHeader.nal),
                 get_ue(InputBits, AfterFirstPivot.pos))

\* C26: mapping predictor flag.  At a pivot whose running predictor count is
\* at least 1 the decoder reads one bit as mapping_param_pred_flag, and when
\* the bit is set it reads no polynomial or MMR parameters: of a pivot that
\* holds mapping_idc 0 and a set flag it consumes those two bits and no more.
C26_MappingPredictorFlag ==
    (cpc # "ready" /\ PredFlagRpu)
        => /\ AfterSecondPivot.ok
           /\ AfterSecondPivot.pos = AfterFirstPivot.pos + 2

----------------------------------------------------------------------------
(* The length of an extension block                                        *)

\* the extension blocks the decoder read from the RPU given to the codec
BlocksRead ==
    IF InputDecoded.nal.vdr_dm_data = <<>> THEN <<>>
    ELSE InputDecoded.nal.vdr_dm_data[1].ext_metadata_blocks

\* C27: extension block length.  For every extension block the decoder read,
\* of any level and any length, the decoder consumed exactly
\* 8 * ext_block_length bits after the ext_block_level byte.
C27_ExtBlockLength ==
    (cpc # "ready" /\ InputDecoded.ok)
        => \A i \in 1..Len(BlocksRead) :
               BlocksRead[i].end_pos - BlocksRead[i].level_pos
                   = 8 * BlocksRead[i].ext_block_length

----------------------------------------------------------------------------
(* Indexing and slicing in the splitter                                    *)

\* C28: no out-of-range access in the splitter.  Without a mode the codec is
\* never called, so the pass never panics: every index and every slice the
\* reader and the writer take lies within its buffer.
C28_NoOutOfRangeAccess ==
    mode = <<>> => pc # "panic"

----------------------------------------------------------------------------
(* The stores of the mapping decode                                        *)

\* the RPU given to the codec has a mapping payload
HasMappingPayload ==
    /\ AfterHeader.ok
    /\ AfterHeader.nal.rpu_type = 2
    /\ ~AfterHeader.nal.use_prev_vdr_rpu_flag

\* the decoder after linear_interp_flag of pivot 0 of component 0
AtLinearInterp ==
    Moved(AfterHeader,
          get_n(InputBits,
                get_ue(InputBits, get_ue(InputBits, AfterHeader.pos).pos).pos, 1))

\* pivot 0 of component 0 is a polynomial of order 1 with linear
\* interpolation, and the stream holds the two values of its last pivot
LinearInterpAtFirstPivot ==
    /\ HasMappingPayload
    /\ get_ue(InputBits, AfterHeader.pos).v = 0
    /\ get_ue(InputBits, get_ue(InputBits, AfterHeader.pos).pos).v = 0
    /\ get_n(InputBits,
             get_ue(InputBits, get_ue(InputBits, AfterHeader.pos).pos).pos, 1).v = 1
    /\ Coefs(InputBits, AtLinearInterp, 2,
             coefficient_log2_denom_length(AfterHeader.nal)).ok

\* C29: mapping decode stays in bounds.  For a header that validate accepts,
\* every store of rpu_data_mapping into a per-component array uses an index
\* below the allocated length: the decode of a pivot with linear
\* interpolation whose values the stream holds does not fail.
C29_MappingStoresInBounds ==
    (cpc # "ready" /\ LinearInterpAtFirstPivot) => AfterFirstPivot.ok

----------------------------------------------------------------------------
(* The length of the written header                                        *)

\* C30: header length is preserved by serialization.  For every decoded RPU,
\* the header written from the record that parse_dovi_rpu transformed has
\* header_end bits, so the tail spliced after it starts at the bit offset it
\* had in the input and the output has the bit length of the cleared input.
C30_HeaderLengthPreserved ==
    cpc = "parsed" => Len(write_rpu_data(codec_nal)) = codec_nal.header_end

----------------------------------------------------------------------------
(* The sinks a write changes                                               *)

\* the sink that write_nal_header and write_nal_data use for the chunk type t
\* (an Option), given the sinks that are set
SinkFor(t) ==
    IF t = <<>> THEN {}
    ELSE IF t[1] = BLChunk THEN {"bl"}
    ELSE IF t[1] = ELChunk THEN {"el"}
    ELSE IF rpu_writer # <<>> THEN {"rpu"}
    ELSE {"el"}

\* the sinks whose contents the step changes
ChangedSinks ==
    {w \in {"bl", "el", "rpu"} : \/ w = "bl" /\ bl_writer' # bl_writer
                                 \/ w = "el" /\ el_writer' # el_writer
                                 \/ w = "rpu" /\ rpu_writer' # rpu_writer}

\* the chunk types the step writes as: the type of the NAL it classifies, and
\* before it, at the start of a chunk, the type of the NAL being continued
TypesWritten ==
    IF consumed = 0 THEN {current_chunk_type, current_chunk_type'}
    ELSE {current_chunk_type'}

\* C31: sink isolation.  A step that writes the start code or the payload of
\* a BL NAL changes only the BL sink, of an EL NAL only the EL sink, of an RPU
\* NAL only the RPU sink, or only the EL sink when the RPU sink is absent;
\* when the sink a NAL would go to is absent, the NAL changes no sink.
C31_SinkIsolation ==
    [][ChangedSinks \subseteq
           (UNION {SinkFor(t) : t \in TypesWritten}) \cap PresentSinks]_vars

\* an RPU NAL was written to the EL sink, the RPU sink being absent, beside a
\* BL NAL written to the BL sink, and the input holds no EL NAL
C31_Witness ==
    /\ pc = "done"
    /\ rpu_writer = <<>>
    /\ bl_writer # <<>> /\ bl_writer[1] # <<>>
    /\ el_writer # <<>> /\ el_writer[1] # <<>>
    /\ \A i \in 1..Len(NalPayloads(input)) :
           CategoryOf(NalPayloads(input)[i]) # ELChunk
    /\ \E i \in 1..Len(NalPayloads(input)) :
           CategoryOf(NalPayloads(input)[i]) = RPUChunk

====
